---- MODULE Spec2Model ----
(***************************************************************************)
(* A model of the hermes-ingestor pipeline: chunking, metadata            *)
(* propagation, embedding, filtered storage in Qdrant, and the ingestion  *)
(* coordinator with its HTTP batch endpoint.                               *)
(*                                                                         *)
(* Text is a sequence of one-character strings, a metadata mapping is a   *)
(* function from key strings to values, a file name is a record           *)
(* [kind, n, ext] standing for "<kind><n>.<ext>".                          *)
(***************************************************************************)
EXTENDS Integers, Sequences, FiniteSets, TLC

VARIABLES
    store,      \* the Qdrant collection: point id -> [text, metadata, vector]
    nextId,     \* number of uuid4 values drawn so far
    clock,      \* the value time.time() returns next
    tmpFiles,   \* the temporary files that exist on disk
    pending,    \* a call in progress: delete_document between its count
                \* and its delete, or the background task of ingest/url
    deleteCalls,\* number of client.delete requests issued to the store
    last,       \* the last completed call: its arguments, the store before it, its result
    settings,   \* the settings read from the environment at import
    collection, \* the collection on the Qdrant server: whether it exists,
                \* its vector size and its payload indexes
    rate_limiter \* the module's RateLimiter: the timestamps it keeps per
                \* client address and per API key

vars ==
    <<store, nextId, clock, tmpFiles, pending, deleteCalls, last, settings,
      collection, rate_limiter>>

----------------------------------------------------------------------------
(* Bounds of the model and configuration *)

\* settings.chunking.chunk_size and chunk_overlap, scaled down
ChunkSize == 2
ChunkOverlap == 1
\* longest document text of the chunker specification
MaxTextLen == 5

\* settings.embedding.batch_size, scaled down
EmbeddingBatchSize == 2

\* number of uploads ingested before the observed call
MaxEarlier == 1

\* longest batch of process_files and ingest/files
MaxBatch == 2

\* number of names a temporary file can get
MaxTmp == 2
MaxIds == 4

\* longest text given to extract_chunk_title, in pieces, and the largest
\* max_length it is called with
MaxTitleTokens == 5
MaxTitleLength == 4

\* settings.embedding.dimensions
EmbeddingDimensions == 2

\* settings.rate_limit_requests and settings.rate_limit_window (seconds) as
\* the rate limiter reads them, scaled down
RateLimitRequests == 2
RateLimitWindow == 2
\* latest time of a request and number of requests sent to the limiter
MaxTime == 3
MaxRequests == 4

\* extract_chunk_title's default max_length
DefaultMaxLength == 100

----------------------------------------------------------------------------
(* Strings as sequences of characters *)

EmptyMap == [k \in {} |-> 0]

\* Python str.strip() and the regex class \s, on the model's alphabet
IsWs(c) == c \in {" ", "\n"}

RECURSIVE LStrip(_)
LStrip(s) == IF s # <<>> /\ IsWs(Head(s)) THEN LStrip(Tail(s)) ELSE s

RECURSIVE RStrip(_)
RStrip(s) ==
    IF s # <<>> /\ IsWs(s[Len(s)]) THEN RStrip(SubSeq(s, 1, Len(s) - 1)) ELSE s

Strip(s) == RStrip(LStrip(s))

StartsWith(s, p) == Len(p) <= Len(s) /\ SubSeq(s, 1, Len(p)) = p

\* re.search(re.escape(sep), text) for a non-empty literal sep
Occurs(sep, text) ==
    \E i \in 1..Len(text) : StartsWith(SubSeq(text, i, Len(text)), sep)

RECURSIVE Flatten(_)
Flatten(ss) == IF ss = <<>> THEN <<>> ELSE Head(ss) \o Flatten(Tail(ss))

\* Python s[:k]
SliceTo(s, k) ==
    IF k >= 0
    THEN SubSeq(s, 1, IF k < Len(s) THEN k ELSE Len(s))
    ELSE SubSeq(s, 1, IF Len(s) + k > 0 THEN Len(s) + k ELSE 0)

\* dict: d[k] = v
DictSet(d, k, v) ==
    [x \in DOMAIN d \cup {k} |-> IF x = k THEN v ELSE d[x]]

\* dict: d.update(e)
DictUpdate(d, e) ==
    [x \in DOMAIN d \cup DOMAIN e |-> IF x \in DOMAIN e THEN e[x] ELSE d[x]]

----------------------------------------------------------------------------
(* RecursiveCharacterTextSplitter, as create_chunks configures it:       *)
(* separators "\n\n", "\n", ". ", " ", "", the separator kept at the     *)
(* start of the following piece, len as the length function, chunks      *)
(* stripped of surrounding whitespace.                                    *)

Separators == << <<"\n", "\n">>, <<"\n">>, <<".", " ">>, <<" ">>, <<>> >>

\* re.split on the literal sep, each separator glued to the piece after it
RECURSIVE SplitFrom(_, _, _)
SplitFrom(text, sep, cur) ==
    IF text = <<>> THEN <<cur>>
    ELSE IF StartsWith(text, sep)
         THEN <<cur>> \o SplitFrom(SubSeq(text, Len(sep) + 1, Len(text)), sep, sep)
         ELSE SplitFrom(Tail(text), sep, Append(cur, Head(text)))

NonEmpty(s) == s # <<>>

SplitWithSeparator(text, sep) ==
    IF sep = <<>>
    THEN [i \in 1..Len(text) |-> <<text[i]>>]
    ELSE SelectSeq(SplitFrom(text, sep, <<>>), NonEmpty)

\* the first separator that occurs in the text, and the finer ones after it
RECURSIVE PickSeparator(_, _, _)
PickSeparator(text, seps, i) ==
    IF i > Len(seps) THEN [sep |-> seps[Len(seps)], rest |-> <<>>]
    ELSE IF seps[i] = <<>> THEN [sep |-> <<>>, rest |-> <<>>]
    ELSE IF Occurs(seps[i], text)
         THEN [sep |-> seps[i], rest |-> SubSeq(seps, i + 1, Len(seps))]
         ELSE PickSeparator(text, seps, i + 1)

\* _join_docs: the joined text stripped; the empty sequence stands for None
JoinDocs(docs) == Strip(Flatten(docs))

\* the while loop of _merge_splits that drops pieces from the front of the
\* current chunk until the overlap fits
RECURSIVE DropFront(_, _, _)
DropFront(cur, total, len) ==
    IF total > settings.chunk_overlap
       \/ (total + len > settings.chunk_size /\ total > 0)
    THEN DropFront(Tail(cur), total - Len(Head(cur)), len)
    ELSE [cur |-> cur, total |-> total]

RECURSIVE MergeLoop(_, _, _, _, _)
MergeLoop(splits, i, docs, cur, total) ==
    IF i > Len(splits)
    THEN IF JoinDocs(cur) # <<>> THEN Append(docs, JoinDocs(cur)) ELSE docs
    ELSE LET d == splits[i]
             over == total + Len(d) > settings.chunk_size /\ Len(cur) > 0
             docs2 == IF over /\ JoinDocs(cur) # <<>>
                      THEN Append(docs, JoinDocs(cur)) ELSE docs
             kept == IF over THEN DropFront(cur, total, Len(d))
                     ELSE [cur |-> cur, total |-> total]
         IN  MergeLoop(splits, i + 1, docs2, Append(kept.cur, d),
                       kept.total + Len(d))

MergeSplits(splits) == MergeLoop(splits, 1, <<>>, <<>>, 0)

RECURSIVE SplitTextRec(_, _)
RECURSIVE SplitLoop(_, _, _, _, _)
SplitLoop(splits, i, good, final, rest) ==
    IF i > Len(splits)
    THEN IF good # <<>> THEN final \o MergeSplits(good) ELSE final
    ELSE LET s == splits[i] IN
         IF Len(s) < settings.chunk_size
         THEN SplitLoop(splits, i + 1, Append(good, s), final, rest)
         ELSE LET flushed == IF good # <<>> THEN final \o MergeSplits(good)
                             ELSE final
                  more == IF rest = <<>> THEN <<s>> ELSE SplitTextRec(s, rest)
              IN  SplitLoop(splits, i + 1, <<>>, flushed \o more, rest)

SplitTextRec(text, seps) ==
    LET p == PickSeparator(text, seps, 1)
    IN  SplitLoop(SplitWithSeparator(text, p.sep), 1, <<>>, <<>>, p.rest)

\* text_splitter.split_text(text)
SplitText(text) == SplitTextRec(text, Separators)

----------------------------------------------------------------------------
(* extract_chunk_title *)

Digits16 == {"1", "2", "3", "4", "5", "6"}

\* length of the longest run of characters of S that starts at i
RECURSIVE RunIn(_, _, _)
RunIn(text, i, S) ==
    IF i <= Len(text) /\ text[i] \in S THEN 1 + RunIn(text, i + 1, S) ELSE 0

\* length of the longest run of characters other than c that starts at i
RECURSIVE RunNot(_, _, _)
RunNot(text, i, c) ==
    IF i <= Len(text) /\ text[i] # c THEN 1 + RunNot(text, i + 1, c) ELSE 0

NoGroup == [found |-> FALSE, group |-> <<>>]
Match(g) == [found |-> TRUE, group |-> g]

\* ^ under re.MULTILINE
LineStart(text, p) == p = 1 \/ text[p - 1] = "\n"

\* r"^#{1,6}\s+(.+)$" tried at line start p: the captured group, if any.
\* The run of '#' must be followed by whitespace, so it is matched whole;
\* \s+ is greedy and gives characters back until (.+) can start on a
\* character that is not a newline; (.+) then runs to the end of the line.
MarkdownHeaderAt(text, p) ==
    LET h == RunIn(text, p, {"#"})
        w == RunIn(text, p + h, {" ", "\n"})
        ok == {k \in 1..w : p + h + k <= Len(text) /\ text[p + h + k] # "\n"}
    IN  IF h \in 1..6 /\ ok # {}
        THEN LET k == CHOOSE x \in ok : \A y \in ok : y <= x
                 q == p + h + k
             IN  Match(SubSeq(text, q, q + RunNot(text, q, "\n") - 1))
        ELSE NoGroup

\* r"<h[1-6][^>]*>([^<]+)</h[1-6]>" tried at position p: the group, if any
HtmlHeaderAt(text, p) ==
    IF p + 2 <= Len(text) /\ text[p] = "<" /\ text[p + 1] = "h"
       /\ text[p + 2] \in Digits16
    THEN LET a == p + 3 + RunNot(text, p + 3, ">")   \* the '>' of the start tag
             g == RunNot(text, a + 1, "<")           \* length of the group
             c == a + 1 + g                          \* the '<' of the end tag
         IN  IF a <= Len(text) /\ g >= 1 /\ c + 4 <= Len(text)
                /\ text[c] = "<" /\ text[c + 1] = "/" /\ text[c + 2] = "h"
                /\ text[c + 3] \in Digits16 /\ text[c + 4] = ">"
             THEN Match(SubSeq(text, a + 1, c - 1))
             ELSE NoGroup
    ELSE NoGroup

\* a search that tries the markdown pattern at the first character only
FirstMarkdownHeaderAtStart(text) ==
    IF text # <<>> THEN MarkdownHeaderAt(text, 1) ELSE NoGroup

\* re.search: the match at the leftmost position
FirstMarkdownHeader(text) ==
    LET at == {p \in 1..Len(text) :
                  LineStart(text, p) /\ MarkdownHeaderAt(text, p).found}
    IN  IF at = {} THEN NoGroup
        ELSE MarkdownHeaderAt(text, CHOOSE p \in at : \A q \in at : p <= q)

FirstHtmlHeader(text) ==
    LET at == {p \in 1..Len(text) : HtmlHeaderAt(text, p).found}
    IN  IF at = {} THEN NoGroup
        ELSE HtmlHeaderAt(text, CHOOSE p \in at : \A q \in at : p <= q)

\* re.split(r'(?<=[.!?])\s+', s)[0]
FirstSentence(s) ==
    LET cut == {i \in 2..Len(s) : IsWs(s[i]) /\ s[i - 1] \in {".", "!", "?"}}
    IN  IF cut = {} THEN s
        ELSE SubSeq(s, 1, (CHOOSE i \in cut : \A j \in cut : i <= j) - 1)

Ellipsis == <<".", ".", ".">>

\* the title of a header match: stripped, cut to max_length without a marker
HeaderTitle(group, max_length) ==
    LET title == Strip(group)
    IN  IF Len(title) > max_length THEN SliceTo(title, max_length) ELSE title

\* a cut to max_length that leaves no marker
EllipsisTitleNoMarker(s, max_length) ==
    IF Len(s) > max_length THEN SliceTo(s, max_length) ELSE s

\* the title of a sentence or of the raw text: cut with an ellipsis marker
EllipsisTitle(s, max_length) ==
    IF Len(s) > max_length THEN SliceTo(s, max_length - 3) \o Ellipsis ELSE s

ExtractChunkTitle(text, max_length) ==
    LET md == FirstMarkdownHeader(text)
        html == FirstHtmlHeader(text)
        first_sentence == Strip(FirstSentence(Strip(text)))
    IN  IF md.found THEN HeaderTitle(md.group, max_length)
        ELSE IF html.found THEN HeaderTitle(html.group, max_length)
        ELSE IF first_sentence # <<>>
             THEN EllipsisTitle(first_sentence, max_length)
             ELSE EllipsisTitle(Strip(text), max_length)

----------------------------------------------------------------------------
(* create_chunks *)

\* a location rule that tests the last chunk before the first
LocationEndFirst(i, n) ==
    IF i = n - 1 THEN "end"
    ELSE IF i = 0 THEN "beginning"
    ELSE "middle"

\* the location marker of chunk i of n (0-based)
Location(i, n) ==
    IF i = 0 THEN "beginning"
    ELSE IF i = n - 1 THEN "end"
    ELSE "middle"

\* a 1-based chunk_id
ChunkIdOneBased(i) == i + 1

\* chunk_metadata["chunk_id"] = i
ChunkIdOf(i) == i

\* chunk_metadata["chunk_total"] = len(texts)
ChunkTotalOf(texts) == Len(texts)

\* the metadata of chunk i (0-based) of the texts
ChunkMetadata(metadata, texts, i) ==
    LET m1 == DictSet(metadata, "chunk_id", ChunkIdOf(i))
        m2 == DictSet(m1, "chunk_total", ChunkTotalOf(texts))
        m3 == DictSet(m2, "location", Location(i, Len(texts)))
        chunk_title == ExtractChunkTitle(texts[i + 1], DefaultMaxLength)
    IN  IF chunk_title # <<>> THEN DictSet(m3, "chunk_title", chunk_title)
        ELSE m3

CreateChunks(text, metadata) ==
    LET texts == SplitText(text)
    IN  [j \in 1..Len(texts) |->
            [text |-> texts[j],
             metadata |-> ChunkMetadata(metadata, texts, j - 1)]]

----------------------------------------------------------------------------
(* Embedder *)

\* SentenceTransformer.encode on one text: a vector of the configured
\* dimension that depends on the text alone
Encode(text) == <<Len(SelectSeq(text, LAMBDA c : c = "a")), Len(text)>>

\* self.model.encode(batch_texts): one vector per text, in order
EncodeBatch(batch) == [i \in 1..Len(batch) |-> Encode(batch[i])]

\* one iteration of the batch loop: the texts handed to the model and the
\* vectors it gave back
EncodedBatch(batch_texts) ==
    [batch_texts |-> batch_texts, batch_embeddings |-> EncodeBatch(batch_texts)]

\* a batch loop that puts the later batches first
RECURSIVE EmbedBatchesLastFirst(_, _)
EmbedBatchesLastFirst(texts, batch_start) ==
    IF batch_start > Len(texts) THEN <<>>
    ELSE LET e == batch_start + settings.batch_size
             batch_end == IF e < Len(texts) + 1 THEN e ELSE Len(texts) + 1
         IN  EmbedBatchesLastFirst(texts, batch_end)
                 \o <<EncodedBatch(SubSeq(texts, batch_start, batch_end - 1))>>

\* the batch loop of embed_texts: all_embeddings, with the batch_texts each
\* entry was made from
RECURSIVE EmbedBatches(_, _)
EmbedBatches(texts, batch_start) ==
    IF batch_start > Len(texts) THEN <<>>
    ELSE LET e == batch_start + settings.batch_size
             batch_end == IF e < Len(texts) + 1 THEN e ELSE Len(texts) + 1
         IN  <<EncodedBatch(SubSeq(texts, batch_start, batch_end - 1))>>
                 \o EmbedBatches(texts, batch_end)

\* np.vstack(all_embeddings)
VStack(all_embeddings) ==
    Flatten([k \in 1..Len(all_embeddings) |-> all_embeddings[k].batch_embeddings])

EmbedTexts(texts) ==
    IF texts = <<>> THEN <<>> ELSE VStack(EmbedBatches(texts, 1))

\* an embed_chunks that leaves every chunk with a zero vector
EmbedChunksBlank(chunks) ==
    [i \in 1..Len(chunks) |->
        [text |-> chunks[i].text, metadata |-> chunks[i].metadata,
         embedding |-> <<0, 0>>]]

EmbedChunks(chunks) ==
    LET embeddings == EmbedTexts([i \in 1..Len(chunks) |-> chunks[i].text])
    IN  [i \in 1..Len(chunks) |->
            [text |-> chunks[i].text, metadata |-> chunks[i].metadata,
             embedding |-> embeddings[i]]]

----------------------------------------------------------------------------
(* QdrantStorage.  The collection is a function from point id to          *)
(* [vector, payload]; upsert writes a batch of points in one request.     *)

\* ids that restart with every call
ReusedIds(drawn, n) == [i \in 1..n |-> i]

\* str(uuid.uuid4()) for each chunk: n values never drawn before
NewIds(drawn, n) == [i \in 1..n |-> drawn + i]

\* rest.PointStruct(id, vector, payload)
PointStruct(id, chunk) ==
    [id |-> id, vector |-> chunk.embedding,
     payload |-> [text |-> chunk.text, metadata |-> chunk.metadata]]

\* an upsert that writes the first point of the batch only
UpsertFirstOnly(coll, points) ==
    [id \in DOMAIN coll \cup {points[1].id} |->
        IF id = points[1].id
        THEN [vector |-> points[1].vector, payload |-> points[1].payload]
        ELSE coll[id]]

\* client.upsert: each point is written under its id, replacing any point
\* already stored under that id
Upsert(coll, points) ==
    LET ids == {points[i].id : i \in 1..Len(points)}
        lastOf(id) == CHOOSE i \in 1..Len(points) :
                          /\ points[i].id = id
                          /\ \A j \in 1..Len(points) : points[j].id = id => j <= i
    IN  [id \in DOMAIN coll \cup ids |->
            IF id \in ids
            THEN [vector |-> points[lastOf(id)].vector,
                  payload |-> points[lastOf(id)].payload]
            ELSE coll[id]]

\* store_chunks without its test for an empty list
StoreChunksAlwaysUpserts(coll, drawn, chunks, fails) ==
    IF fails
    THEN [raised |-> TRUE, ids |-> <<>>, store |-> coll, nextId |-> drawn]
    ELSE [raised |-> FALSE, ids |-> NewIds(drawn, Len(chunks)), store |-> coll,
          nextId |-> drawn + Len(chunks)]

\* store_chunks: the ids returned and the collection and uuid source after
\* the call; a failing upsert raises and writes nothing
StoreChunks(coll, drawn, chunks, fails) ==
    IF chunks = <<>>
    THEN [raised |-> FALSE, ids |-> <<>>, store |-> coll, nextId |-> drawn]
    ELSE LET ids == NewIds(drawn, Len(chunks))
             points == [i \in 1..Len(chunks) |-> PointStruct(ids[i], chunks[i])]
         IN  IF fails
             THEN [raised |-> TRUE, ids |-> <<>>, store |-> coll,
                   nextId |-> drawn + Len(chunks)]
             ELSE [raised |-> FALSE, ids |-> ids, store |-> Upsert(coll, points),
                   nextId |-> drawn + Len(chunks)]

\* A filter value is a single value or a list/tuple of values
Single(v) == [list |-> FALSE, v |-> v]
AnyOf(vs) == [list |-> TRUE, v |-> vs]

\* key=f"metadata.{key}"
MetadataKey(key) == <<"metadata", key>>

\* rest.FieldCondition(key=f"metadata.{key}", match=rest.MatchValue(value=v))
FieldCondition(key, v) == [kind |-> "field", key |-> MetadataKey(key), value |-> v]

\* the condition built for one item of the filters mapping: a nested
\* Filter(should=[...]) for a list or tuple, a FieldCondition otherwise
ConditionFor(key, value) ==
    IF value.list
    THEN [kind |-> "filter",
          should |-> [i \in 1..Len(value.v) |-> FieldCondition(key, value.v[i])]]
    ELSE FieldCondition(key, value.v)

\* rest.Filter(must=conditions), one condition per item of the mapping
BuildFilter(filters) ==
    [must |-> [k \in DOMAIN filters |-> ConditionFor(k, filters[k])]]

\* Qdrant: a field condition holds when the payload has the key path and the
\* value stored there equals the match value
FieldMatches(cond, payload) ==
    /\ cond.key[1] \in DOMAIN payload
    /\ cond.key[2] \in DOMAIN payload[cond.key[1]]
    /\ payload[cond.key[1]][cond.key[2]] = cond.value

\* Qdrant: a should clause holds when it is empty or one of its conditions
\* holds (an empty clause constrains nothing)
ShouldMatches(should, payload) ==
    \/ should = <<>>
    \/ \E i \in 1..Len(should) : FieldMatches(should[i], payload)

ConditionMatches(cond, payload) ==
    IF cond.kind = "field" THEN FieldMatches(cond, payload)
    ELSE ShouldMatches(cond.should, payload)

\* Qdrant: every must condition holds
FilterMatches(filter, payload) ==
    \A k \in DOMAIN filter.must : ConditionMatches(filter.must[k], payload)

\* the points a filter selects
Selected(coll, filter) ==
    {id \in DOMAIN coll : FilterMatches(filter, coll[id].payload)}

\* a count for which a list with no values matches no record
CountByFiltersEmptyListNone(coll, filters) ==
    IF filters = EmptyMap
    THEN Cardinality(DOMAIN coll)
    ELSE IF \E k \in DOMAIN filters : filters[k].list /\ Len(filters[k].v) = 0
    THEN 0
    ELSE Cardinality(Selected(coll, BuildFilter(filters)))

\* count_by_filters
CountByFilters(coll, filters) ==
    IF filters = EmptyMap
    THEN Cardinality(DOMAIN coll)
    ELSE Cardinality(Selected(coll, BuildFilter(filters)))

\* a deletion that selects the points matching any one of the conditions
DeleteAnyCondition(coll, filters) ==
    LET f == BuildFilter(filters)
        hit == {id \in DOMAIN coll :
                   \E k \in DOMAIN f.must :
                       ConditionMatches(f.must[k], coll[id].payload)}
    IN  [id \in DOMAIN coll \ hit |-> coll[id]]

\* delete_by_filters: the collection after client.delete with the filter
DeleteByFilters(coll, filters) ==
    LET gone == Selected(coll, BuildFilter(filters))
    IN  [id \in DOMAIN coll \ gone |-> coll[id]]

\* cosine similarity orders the hits; the model ranks by the dot product
Score(q, v) == q[1] * v[1] + q[2] * v[2]

\* the points search considers: all of them without filters
SearchCandidates(coll, filters) ==
    IF filters = EmptyMap THEN DOMAIN coll
    ELSE Selected(coll, BuildFilter(filters))

\* the hits in descending score order (ties by id), at most limit of them
RECURSIVE RankHits(_, _, _, _)
RankHits(coll, ids, q, limit) ==
    IF ids = {} \/ limit = 0 THEN <<>>
    ELSE LET best == CHOOSE id \in ids : \A o \in ids :
                         \/ Score(q, coll[id].vector) > Score(q, coll[o].vector)
                         \/ /\ Score(q, coll[id].vector) = Score(q, coll[o].vector)
                            /\ id <= o
         IN  <<[id |-> best, score |-> Score(q, coll[best].vector),
                text |-> coll[best].payload.text,
                metadata |-> coll[best].payload.metadata]>>
                 \o RankHits(coll, ids \ {best}, q, limit - 1)

\* search
Search(coll, query_vector, limit, filters) ==
    RankHits(coll, SearchCandidates(coll, filters), query_vector, limit)

----------------------------------------------------------------------------
(* Ingestor.  The world an ingestion acts on is a record                  *)
(* [store, nextId, clock, tmpFiles].  A document is a record              *)
(* [path, text, fault]: the file at path, the text its processor          *)
(* extracts, and the step that fails for it, if any.  An outcome is       *)
(* [raised, error, result, w]: an exception or a returned value, and the  *)
(* world after the call.                                                  *)

World(st, nid, clk, tmp) ==
    [store |-> st, nextId |-> nid, clock |-> clk, tmpFiles |-> tmp,
     calls |-> <<>>]

\* w.calls lists, in order, the operations a request has invoked so far:
\* the stage and the number of items handed to it
Invoked(w, stage, n) ==
    [w EXCEPT !.calls = Append(@, [stage |-> stage, n |-> n])]

Raise(w, message) == [raised |-> TRUE, error |-> message, w |-> w]
Return(w, value) == [raised |-> FALSE, result |-> value, w |-> w]

\* get_processor: the extensions that have a processor class
ProcessorExts == {"pdf", "md", "markdown", "html", "htm", "txt", "text", "docx"}

\* the file_type each processor reports
FileTypeOf(ext) ==
    CASE ext \in {"md", "markdown"} -> "markdown"
      [] ext \in {"html", "htm"} -> "html"
      [] ext \in {"txt", "text"} -> "text"
      [] OTHER -> ext

\* extract_metadata: the keys every processor provides
ExtractMetadata(path) ==
    [source |-> path, filename |-> path, file_type |-> FileTypeOf(path.ext)]

\* ConstructSplitter: RecursiveCharacterTextSplitter refuses an overlap
\* larger than the chunk size
SplitterAccepts == settings.chunk_overlap <= settings.chunk_size

\* document_metadata: the processor's metadata, updated with the caller's
\* when there is any, then stamped with ingested_at
DocumentMetadata(path, metadata, now) ==
    DictSet(IF metadata # EmptyMap
            THEN DictUpdate(ExtractMetadata(path), metadata)
            ELSE ExtractMetadata(path),
            "ingested_at", now)

\* the end of the try block: the file is removed when delete_after is set,
\* and the result is returned
RemoveAndReturn(w, doc, delete_after, chunks, stored) ==
    IF stored.raised
    THEN Raise([w EXCEPT !.nextId = stored.nextId], "storage failed")
    ELSE IF delete_after /\ doc.fault = "remove"
    THEN Raise(Invoked([w EXCEPT !.store = stored.store,
                                 !.nextId = stored.nextId], "remove", 1),
               "remove failed")
    ELSE Return([w EXCEPT !.store = stored.store, !.nextId = stored.nextId,
                          !.tmpFiles = IF delete_after THEN @ \ {doc.path} ELSE @,
                          !.calls = IF delete_after
                                    THEN Append(@, [stage |-> "remove", n |-> 1])
                                    ELSE @],
                [success |-> TRUE, file_path |-> doc.path,
                 file_name |-> doc.path, chunks_created |-> Len(chunks),
                 chunk_ids |-> stored.ids])

\* store_chunks is called with n embedded chunks and sends them, when there
\* are any, in one upsert request
StoreInvoked(w, n) ==
    IF n = 0 THEN Invoked(w, "store", 0)
    ELSE Invoked(Invoked(w, "store", n), "upsert", n)

\* a try block that calls embed_chunks a second time when it fails and
\* stores the chunks whatever came of it
EmbedAndStoreRetrying(w, doc, delete_after, chunks) ==
    RemoveAndReturn(StoreInvoked(Invoked(IF doc.fault = "embed"
                                         THEN Invoked(w, "embed", Len(chunks))
                                         ELSE w,
                                         "embed", Len(chunks)),
                                 Len(chunks)),
                    doc, delete_after, chunks,
                    StoreChunks(w.store, w.nextId, EmbedChunks(chunks),
                                doc.fault = "store"))

\* the try block from the chunks on: embed_chunks, store_chunks, os.remove
EmbedAndStore(w, doc, delete_after, chunks) ==
    IF doc.fault = "embed" /\ chunks # <<>>
    THEN Raise(Invoked(w, "embed", Len(chunks)), "embedding failed")
    ELSE RemoveAndReturn(StoreInvoked(Invoked(w, "embed", Len(chunks)),
                                      Len(chunks)),
                         doc, delete_after, chunks,
                         StoreChunks(w.store, w.nextId, EmbedChunks(chunks),
                                     doc.fault = "store"))

\* the try block of process_file
ProcessFileTry(w, doc, metadata, delete_after) ==
    IF doc.path.ext \notin ProcessorExts
    THEN Raise(w, "Unsupported file type")
    ELSE IF doc.fault = "missing" THEN Raise(w, "File not found")
    ELSE IF doc.fault = "extract"
    THEN Raise(Invoked(w, "extract", 1), "extraction failed")
    ELSE IF ~SplitterAccepts
    THEN Raise(Invoked(Invoked([w EXCEPT !.clock = @ + 1], "extract", 1),
                       "chunk", 1),
               "larger chunk overlap than chunk size")
    ELSE EmbedAndStore(Invoked(Invoked([w EXCEPT !.clock = @ + 1], "extract", 1),
                               "chunk", 1),
                       doc, delete_after,
                       CreateChunks(doc.text,
                                    DocumentMetadata(doc.path, metadata, w.clock)))

\* an except clause that lets the exception go on
Reraise(out, doc) == out

\* the except clause of process_file: any exception becomes a failed result
ProcessFileExcept(out, doc) ==
    IF out.raised
    THEN Return(out.w, [success |-> FALSE, file_path |-> doc.path,
                        file_name |-> doc.path, error |-> out.error])
    ELSE out

\* process_file
ProcessFile(w, doc, metadata, delete_after) ==
    ProcessFileExcept(ProcessFileTry(w, doc, metadata, delete_after), doc)

\* the names tempfile.NamedTemporaryFile can give a file with this suffix
FreeTmpNames(w, ext) ==
    {[kind |-> "tmp", n |-> n, ext |-> ext] : n \in 1..MaxTmp} \ w.tmpFiles

\* the except clause of process_upload: the temporary file is removed and
\* the exception raised again
ProcessUploadExcept(out, tmp_path) ==
    IF out.raised THEN [out EXCEPT !.w.tmpFiles = @ \ {tmp_path}] ELSE out

\* process_upload, the temporary file being created as tmp_path
ProcessUpload(w, upload, metadata, tmp_path) ==
    IF upload.fault = "tmpfile" THEN Raise(w, "cannot create temporary file")
    ELSE ProcessUploadExcept(
             ProcessFile(Invoked([w EXCEPT !.tmpFiles = @ \cup {tmp_path}],
                                 "tmpfile", 1),
                         [path |-> tmp_path, text |-> upload.text,
                          fault |-> upload.fault],
                         metadata, TRUE),
             tmp_path)

\* results.append(result)
AppendResult(results, out) ==
    IF out.raised THEN out ELSE Return(out.w, Append(results, out.result))

\* process_files: the loop from document i on, sofar being the world and the
\* results of the documents before; an exception out of process_file would
\* end the loop
RECURSIVE ProcessFilesFrom(_, _, _, _, _)
ProcessFilesFrom(sofar, docs, i, metadata, delete_after) ==
    IF sofar.raised \/ i > Len(docs) THEN sofar
    ELSE ProcessFilesFrom(
             AppendResult(sofar.result,
                          ProcessFile(sofar.w, docs[i], metadata, delete_after)),
             docs, i + 1, metadata, delete_after)

ProcessFiles(w, docs, metadata, delete_after) ==
    ProcessFilesFrom(Return(w, <<>>), docs, 1, metadata, delete_after)

\* a zero-count test that never reports "no match"
NeverNoMatch(before_count) == FALSE

\* if before_count == 0
NoMatch(before_count) == before_count = 0

\* delete_document's argument: a file name or a filters mapping
FiltersOf(document_identifier) ==
    IF document_identifier.isName
    THEN [filename |-> Single(document_identifier.v)]
    ELSE document_identifier.v

NoMatchResult ==
    [success |-> FALSE, error |-> "No documents match the given identifier",
     deleted_count |-> 0]

ErrorResult(message) == [success |-> FALSE, error |-> message, deleted_count |-> 0]

\* delete_document up to its count: the result it returns at once, or the
\* count it goes on to delete with
DeleteDocumentCount(coll, filters, fails) ==
    IF fails THEN [done |-> TRUE, result |-> ErrorResult("count failed")]
    ELSE LET before_count == CountByFilters(coll, filters)
         IN  IF NoMatch(before_count)
             THEN [done |-> TRUE, result |-> NoMatchResult]
             ELSE [done |-> FALSE, before_count |-> before_count]

\* a delete_document that reports the number of records its delete request
\* found, not the count made before
DeleteDocumentDeleteRecounting(coll, filters, before_count, operation_id, fails) ==
    IF fails
    THEN [store |-> coll, result |-> ErrorResult("delete failed")]
    ELSE [store |-> DeleteByFilters(coll, filters),
          result |-> [success |-> TRUE,
                      deleted_count |->
                          Cardinality(Selected(coll, BuildFilter(filters))),
                      operation_id |-> operation_id, filters |-> filters]]

\* delete_document from its delete on; operation_id is the number of the
\* delete request
DeleteDocumentDelete(coll, filters, before_count, operation_id, fails) ==
    IF fails
    THEN [store |-> coll, result |-> ErrorResult("delete failed")]
    ELSE [store |-> DeleteByFilters(coll, filters),
          result |-> [success |-> TRUE, deleted_count |-> before_count,
                      operation_id |-> operation_id, filters |-> filters]]

----------------------------------------------------------------------------
(* The ingest/files route *)

\* settings.supported_formats
SupportedFormats == {"pdf", "txt", "md", "html", "docx"}

\* dict.get for the optional fields of a processing result
Get(result, key) ==
    IF key \in DOMAIN result THEN [some |-> TRUE, v |-> result[key]]
    ELSE [some |-> FALSE]

\* models.ProcessingResponse built from a process_upload result
ProcessingResponse(result) ==
    [success |-> result.success, file_name |-> result.file_name,
     chunks_created |-> Get(result, "chunks_created"),
     error |-> Get(result, "error")]

\* models.ProcessingResponse(success=False, file_name=..., error=...)
FailedResponse(file_name, message) ==
    [success |-> FALSE, file_name |-> file_name,
     chunks_created |-> [some |-> FALSE],
     error |-> [some |-> TRUE, v |-> message]]

\* a rejection that forgets to count the file as failed
RejectUncounted(acc, file_name, message) ==
    [acc EXCEPT !.results = Append(@, FailedResponse(file_name, message))]

\* a file the loop rejects or whose processing raised: a failed response
\* is appended and failed is incremented
Reject(acc, file_name, message) ==
    [acc EXCEPT !.results = Append(@, FailedResponse(file_name, message)),
                !.failed = @ + 1]

\* a file process_upload returned a result for
Record(acc, result) ==
    [acc EXCEPT !.results = Append(@, ProcessingResponse(result)),
                !.successful = IF result.success THEN @ + 1 ELSE @,
                !.failed = IF result.success THEN @ ELSE @ + 1]

\* the outcome of process_upload for an upload: its result is recorded, an
\* exception rejects the file
Tally(acc, upload, out) ==
    IF out.raised
    THEN [w |-> out.w,
          acc |-> Reject(acc, upload.filename, "Error processing file")]
    ELSE [w |-> out.w, acc |-> Record(acc, out.result)]

\* an iteration that hands every upload to process_upload unchecked
IngestOneUnchecked(w, acc, upload, metadata, tmp_path) ==
    Tally(acc, upload, ProcessUpload(w, upload, metadata, tmp_path))

\* one iteration of the loop of ingest_files over an upload, the temporary
\* file process_upload creates being tmp_path
IngestOne(w, acc, upload, metadata, tmp_path) ==
    IF upload.filename.ext \notin SupportedFormats
    THEN [w |-> w, acc |-> Reject(acc, upload.filename, "Unsupported file format")]
    ELSE IF upload.too_large
    THEN [w |-> w, acc |-> Reject(acc, upload.filename, "File too large")]
    ELSE IF upload.fault = "read"
    THEN [w |-> w, acc |-> Reject(acc, upload.filename, "Error processing file")]
    ELSE Tally(acc, upload, ProcessUpload(w, upload, metadata, tmp_path))

\* the loop of ingest_files from upload i on, sofar being the world and the
\* counters and results of the uploads before; tmps[i] is the temporary
\* file name drawn for upload i
RECURSIVE IngestFrom(_, _, _, _, _)
IngestFrom(sofar, files, i, metadata, tmps) ==
    IF i > Len(files) THEN sofar
    ELSE IngestFrom(IngestOne(sofar.w, sofar.acc, files[i], metadata, tmps[i]),
                    files, i + 1, metadata, tmps)

\* models.BatchProcessingResponse(total_files=len(files), ...)
BatchProcessingResponse(files, end) ==
    [w |-> end.w,
     response |-> [total_files |-> Len(files),
                   successful |-> end.acc.successful,
                   failed |-> end.acc.failed,
                   results |-> end.acc.results]]

\* ingest_files: the world after the batch and the response
IngestFiles(w, files, metadata, tmps) ==
    BatchProcessingResponse(
        files,
        IngestFrom([w |-> w,
                    acc |-> [results |-> <<>>, successful |-> 0, failed |-> 0]],
                   files, 1, metadata, tmps))

----------------------------------------------------------------------------
(* The ingest/url route and its background task.  A url is a record      *)
(* [scheme, base]: what it starts with and the base name of its path (of  *)
(* kind "" when the path ends with a slash).  A download is a record      *)
(* [fault, content_type, text]: what fails in the task, the content-type  *)
(* header of the response and the text of the downloaded document.        *)

\* payload.url.startswith(("http://", "https://"))
ValidUrl(url) == url.scheme \in {"http", "https"}

\* the default file name
DownloadedFile == [kind |-> "downloaded_file", n |-> 0, ext |-> ""]

\* os.path.basename(payload.url.split("?")[0]) or "downloaded_file"
UrlBaseName(url) == IF url.base.kind = "" THEN DownloadedFile ELSE url.base

\* the extension inferred from the content-type header
ContentTypeExt(content_type) ==
    CASE content_type = "application/pdf" -> "pdf"
      [] content_type = "text/plain" -> "txt"
      [] OTHER -> ""

\* filename, with the inferred extension when it has none
UrlFileName(url, content_type) ==
    IF UrlBaseName(url).ext = "" /\ ContentTypeExt(content_type) # ""
    THEN [UrlBaseName(url) EXCEPT !.ext = ContentTypeExt(content_type)]
    ELSE UrlBaseName(url)

\* final_metadata: the source url, updated with the payload's metadata
FinalMetadata(payload) ==
    IF payload.metadata # EmptyMap
    THEN DictUpdate([source_url |-> payload.url], payload.metadata)
    ELSE [source_url |-> payload.url]

\* the try block of process_url_task: the download, the temporary file
\* temp_file_path it is saved to, and process_upload, whose own temporary
\* file is tmp_path
UrlTaskTry(w, payload, dl, temp_file_path, tmp_path) ==
    IF dl.fault = "download" THEN Raise(w, "download failed")
    ELSE IF dl.fault = "stream"
    THEN Raise([w EXCEPT !.tmpFiles = @ \cup {temp_file_path}],
               "download interrupted")
    ELSE ProcessUpload([w EXCEPT !.tmpFiles = @ \cup {temp_file_path}],
                       [filename |-> UrlFileName(payload.url, dl.content_type),
                        too_large |-> FALSE, text |-> dl.text,
                        fault |-> dl.fault],
                       FinalMetadata(payload), tmp_path)

\* except clauses that let the exception out of the task
UrlTaskLetThrough(out, payload) == out

\* the except clauses of process_url_task: the exception is logged
UrlTaskExcept(out, payload) ==
    IF out.raised
    THEN Return(out.w, [logged |-> out.error, url |-> payload.url])
    ELSE out

\* the finally clause of process_url_task: the downloaded file is removed
\* when it exists; a failure of os.remove is logged
UrlTaskFinally(out, temp_file_path, cleanup_fails) ==
    IF temp_file_path \in out.w.tmpFiles /\ ~cleanup_fails
    THEN [out EXCEPT !.w.tmpFiles = @ \ {temp_file_path}]
    ELSE out

\* process_url_task
ProcessUrlTask(w, payload, dl, temp_file_path, tmp_path, cleanup_fails) ==
    UrlTaskFinally(
        UrlTaskExcept(UrlTaskTry(w, payload, dl, temp_file_path, tmp_path),
                      payload),
        temp_file_path, cleanup_fails)

\* the acknowledgement ingest_from_url returns
UrlAcknowledgement(payload) ==
    [success |-> TRUE, message |-> payload.url,
     file_name |-> UrlBaseName(payload.url)]

----------------------------------------------------------------------------
(* Inputs *)

Alphabet == {"a", " ", "\n", "."}

\* every text of at most MaxTextLen characters
Texts == UNION {[1..n -> Alphabet] : n \in 0..MaxTextLen}

\* a file name "<kind><n>.<ext>"
FileName(kind, n, ext) == [kind |-> kind, n |-> n, ext |-> ext]

\* document metadata handed to create_chunks: without and with keys that
\* create_chunks also writes
DocMetas ==
    { EmptyMap,
      [filename |-> FileName("user", 1, "txt")],
      [filename |-> FileName("user", 1, "txt"), title |-> <<"T">>],
      [filename |-> FileName("user", 1, "txt"), location |-> "paris"],
      [filename |-> FileName("user", 1, "txt"), chunk_id |-> 7],
      [chunk_total |-> 9, chunk_title |-> <<"z">>] }

\* the texts of the documents that are ingested: no chunk, one chunk, and
\* more than one chunk
DocTexts == {<<>>, <<"a">>, <<"a", "a", "a">>}

\* the steps of process_file that can fail for a document
FileFaults == {"none", "missing", "extract", "embed", "store", "remove"}

\* the files process_file and process_files are called on
Docs ==
    {[path |-> FileName("user", 1, "txt"), text |-> <<"a">>, fault |-> f] :
         f \in FileFaults}
    \cup {[path |-> FileName("user", 2, "md"), text |-> t, fault |-> "none"] :
              t \in DocTexts}
    \cup {[path |-> FileName("user", 2, "md"), text |-> <<>>, fault |-> f] :
              f \in {"embed", "store"}}
    \cup {[path |-> FileName("user", 3, "xyz"), text |-> <<"a">>, fault |-> "none"]}

\* the uploads: a field of the multipart form, with what fails for it
Upload(filename, too_large, text, fault) ==
    [filename |-> filename, too_large |-> too_large, text |-> text, fault |-> fault]

Uploads ==
    {Upload(FileName("user", 1, "txt"), FALSE, <<"a">>, f) :
         f \in {"none", "read", "tmpfile", "extract", "embed", "store", "remove"}}
    \cup {Upload(FileName("user", 2, "md"), FALSE, <<"a", "a", "a">>, "none"),
          Upload(FileName("user", 3, "xyz"), FALSE, <<"a">>, "none"),
          Upload(FileName("user", 1, "txt"), TRUE, <<"a">>, "none")}

\* the files and uploads batches are made of
BatchDocs ==
    {d \in Docs : /\ d.fault \in {"none", "extract", "store", "remove"}
                  /\ Len(d.text) = 1}

BatchUploads ==
    {u \in Uploads : /\ u.fault \in {"none", "tmpfile", "store"}
                     /\ u.filename.ext # "md"}

\* the metadata a caller adds: none, a key of its own, and keys that the
\* processor and process_file produce as well
CallerMetas ==
    {EmptyMap, [category |-> "x"], [file_type |-> "report", ingested_at |-> 99]}

\* every sequence of 1..n elements of S
SeqsUpTo(S, n) == UNION {[1..k -> S] : k \in 1..n}

\* the embedded chunk lists store_chunks is called with directly
StoredDocs ==
    { <<>>,
      EmbedChunks(CreateChunks(<<"a">>,
          DictSet(ExtractMetadata(FileName("tmp", 1, "txt")), "ingested_at", 0))),
      EmbedChunks(CreateChunks(<<"a", "a", "a">>,
          DictSet(DictUpdate(ExtractMetadata(FileName("user", 2, "md")),
                             [category |-> "x"]), "ingested_at", 0))) }

\* the filters of count, search and delete
FilterSet ==
    { EmptyMap,
      [filename |-> Single(FileName("tmp", 1, "txt"))],
      [file_type |-> AnyOf(<<"text", "markdown">>)],
      [file_type |-> AnyOf(<<"markdown">>)],
      [file_type |-> AnyOf(<<>>)],
      [category |-> Single("x"), chunk_id |-> Single(0)],
      [file_type |-> Single("markdown"), location |-> AnyOf(<<"end", "middle">>)],
      [text |-> Single(<<"a">>)] }

\* the arguments of delete_document: a file name or a filters mapping
Identifiers ==
    {[isName |-> TRUE, v |-> FileName("user", 2, "md")],
     [isName |-> TRUE, v |-> FileName("user", 9, "txt")]}
    \cup {[isName |-> FALSE, v |-> f] : f \in FilterSet}

QueryVectors == {<<1, 0>>, <<0, 1>>}

\* the limit argument of search: its default and a smaller one
SearchLimits == {1, 10}

\* the payloads of the ingest/url route
Urls ==
    {[scheme |-> s, base |-> b] :
         s \in {"http", "https", "ftp"},
         b \in {FileName("user", 1, "txt"), FileName("user", 4, ""),
                FileName("", 0, "")}}

UrlPayloads == {[url |-> u, metadata |-> m] : u \in Urls, m \in CallerMetas}

\* what the background task meets: the step that fails, the content-type
\* header and the downloaded text
Downloads ==
    {[fault |-> f, content_type |-> c, text |-> <<"a">>] :
         f \in {"none", "download", "stream", "tmpfile", "extract", "store",
                "remove"},
         c \in {"", "application/pdf", "text/plain"}}

----------------------------------------------------------------------------
(* QdrantStorage.__init__ and _ensure_collection_exists.  The server's    *)
(* collection is a record [exists, size, indexes, created]; created       *)
(* counts the create_collection requests the service has made.            *)

\* the fields _create_payload_indexes provisions
IndexFields == {"filename", "file_type", "title", "author", "chunk_id", "location"}

NoCollection == [exists |-> FALSE, size |-> 0, indexes |-> {}, created |-> 0]

CreatedCollection(size, indexes, created) ==
    [exists |-> TRUE, size |-> size, indexes |-> indexes, created |-> created]

\* a constructor that creates the collection whether it is there or not
EnsureCollectionExistsRecreating(coll, vector_size, fault) ==
    IF fault \in {"list", "create"} THEN [raised |-> TRUE, collection |-> coll]
    ELSE [raised |-> FALSE,
          collection |->
              CreatedCollection(vector_size,
                                IF fault = "index" THEN {} ELSE IndexFields,
                                coll.created + 1)]

\* _ensure_collection_exists: get_collections, and create_collection with
\* the payload indexes when the name is not listed; a failing request is
\* raised again, a failing index is passed over
EnsureCollectionExists(coll, vector_size, fault) ==
    IF fault = "list" THEN [raised |-> TRUE, collection |-> coll]
    ELSE IF coll.exists THEN [raised |-> FALSE, collection |-> coll]
    ELSE IF fault = "create" THEN [raised |-> TRUE, collection |-> coll]
    ELSE [raised |-> FALSE,
          collection |->
              CreatedCollection(vector_size,
                                IF fault = "index" THEN {} ELSE IndexFields,
                                coll.created + 1)]

----------------------------------------------------------------------------
(* The rate limiter of the API middleware *)

\* request.client.host of the requests, and their X-API-Key header ("" when
\* the header is absent); one key is also the address of a client, since
\* _clean_old_requests looks a key up in both mappings
ClientIps == {"10.0.0.1", "10.0.0.2"}
ApiKeys == {"", "10.0.0.1"}

\* RateLimiter(): two defaultdict(list), which hold the empty list for
\* every key they have not been given
RateLimiter ==
    [requests |-> [key \in ClientIps \cup ApiKeys |-> <<>>],
     api_key_requests |-> [key \in ClientIps \cup ApiKeys |-> <<>>]]

\* [t for t in timestamps if current_time - t < window]
YoungerThan(timestamps, current_time, window) ==
    SelectSeq(timestamps, LAMBDA t : current_time - t < window)

\* _clean_old_requests(key, current_time)
CleanOldRequests(rl, key, current_time) ==
    LET window == RateLimitWindow
    IN  [requests |->
             [rl.requests EXCEPT
                  ![key] = YoungerThan(@, current_time, window)],
         api_key_requests |->
             [rl.api_key_requests EXCEPT
                  ![key] = YoungerThan(@, current_time, window)]]

\* a check that limits a key only once it holds more than the limit
CheckRateLimitAboveLimit(rl, client_ip, api_key, current_time) ==
    LET cleaned == CleanOldRequests(
                       CleanOldRequests(rl, client_ip, current_time),
                       api_key, current_time)
    IN  IF Len(cleaned.requests[client_ip]) > RateLimitRequests
        THEN [rl |-> cleaned, is_limited |-> TRUE,
              reason |-> "Too many requests from this IP"]
        ELSE IF api_key # ""
                /\ Len(cleaned.api_key_requests[api_key]) > RateLimitRequests
        THEN [rl |-> cleaned, is_limited |-> TRUE,
              reason |-> "Too many requests with this API key"]
        ELSE [rl |->
                  [requests |->
                       [cleaned.requests EXCEPT
                            ![client_ip] = Append(@, current_time)],
                   api_key_requests |->
                       IF api_key # ""
                       THEN [cleaned.api_key_requests EXCEPT
                                 ![api_key] = Append(@, current_time)]
                       ELSE cleaned.api_key_requests],
              is_limited |-> FALSE, reason |-> ""]

\* check_rate_limit(request) at current_time: the limiter after the call
\* and the pair (is_limited, reason) it returns
CheckRateLimit(rl, client_ip, api_key, current_time) ==
    LET cleaned == CleanOldRequests(
                       CleanOldRequests(rl, client_ip, current_time),
                       api_key, current_time)
    IN  IF Len(cleaned.requests[client_ip]) >= RateLimitRequests
        THEN [rl |-> cleaned, is_limited |-> TRUE,
              reason |-> "Too many requests from this IP"]
        ELSE IF api_key # ""
                /\ Len(cleaned.api_key_requests[api_key]) >= RateLimitRequests
        THEN [rl |-> cleaned, is_limited |-> TRUE,
              reason |-> "Too many requests with this API key"]
        ELSE [rl |->
                  [requests |->
                       [cleaned.requests EXCEPT
                            ![client_ip] = Append(@, current_time)],
                   api_key_requests |->
                       IF api_key # ""
                       THEN [cleaned.api_key_requests EXCEPT
                                 ![api_key] = Append(@, current_time)]
                       ELSE cleaned.api_key_requests],
              is_limited |-> FALSE, reason |-> ""]

\* rate_limit_middleware(request, call_next): status 429 with the reason as
\* detail for a limited request; otherwise the response is the one of the
\* next handler, whose status is not the limiter's (0 here)
RateLimitMiddleware(rl, client_ip, api_key, current_time) ==
    LET out == CheckRateLimit(rl, client_ip, api_key, current_time)
    IN  [rl |-> out.rl,
         response |->
             [client_ip |-> client_ip, api_key |-> api_key,
              current_time |-> current_time,
              is_limited |-> out.is_limited,
              status_code |-> IF out.is_limited THEN 429 ELSE 0,
              detail |-> out.reason]]

----------------------------------------------------------------------------
(* State machine *)

NoCall == [op |-> "none"]

\* the settings the model reads: the two integers of ChunkingSettings and
\* the batch size of EmbeddingSettings, taken from the environment as they
\* are
Settings(chunk_size, chunk_overlap, batch_size) ==
    [chunk_size |-> chunk_size, chunk_overlap |-> chunk_overlap,
     batch_size |-> batch_size, dimensions |-> EmbeddingDimensions]

ChunkingSettings(chunk_size, chunk_overlap) ==
    Settings(chunk_size, chunk_overlap, EmbeddingBatchSize)

Init ==
    /\ settings = ChunkingSettings(ChunkSize, ChunkOverlap)
    /\ store = EmptyMap
    /\ nextId = 0
    /\ clock = 0
    /\ tmpFiles = {}
    /\ pending = NoCall
    /\ deleteCalls = 0
    /\ collection = CreatedCollection(settings.dimensions, IndexFields, 1)
    /\ rate_limiter = RateLimiter
    /\ last = NoCall

\* a call of create_chunks(text, metadata); the function is pure, so one
\* call from the initial state covers every call
CreateChunksCall ==
    \E text \in Texts, metadata \in DocMetas :
        /\ last = NoCall
        /\ last' = [op |-> "create_chunks", text |-> text,
                    metadata |-> metadata,
                    chunks |-> CreateChunks(text, metadata)]
        /\ UNCHANGED <<store, nextId, clock, tmpFiles, pending, deleteCalls, settings, collection, rate_limiter>>

TheWorld == World(store, nextId, clock, tmpFiles)

SetWorld(w) ==
    /\ store' = w.store
    /\ nextId' = w.nextId
    /\ clock' = w.clock
    /\ tmpFiles' = w.tmpFiles

\* `last` observes one call of a run: a call is made only while no call
\* has been observed, and what happened before the observed call is the
\* earlier traffic of the service.
Unobserved == last = NoCall

\* a call of process_file
ProcessFileCall ==
    /\ Unobserved
    /\ \E doc \in Docs, metadata \in CallerMetas, delete_after \in BOOLEAN :
        LET out == ProcessFile(TheWorld, doc, metadata, delete_after) IN
        /\ SetWorld(out.w)
        /\ last' = [op |-> "process_file", doc |-> doc, metadata |-> metadata,
                    delete_after |-> delete_after, pre |-> store, out |-> out]
        /\ UNCHANGED <<pending, deleteCalls, settings, collection, rate_limiter>>

\* the uploads of the earlier traffic
EarlierUploads ==
    {u \in Uploads : ~u.too_large /\ u.fault = "none" /\ u.filename.ext = "txt"}

\* a call of process_upload: one of the first MaxEarlier uploads of the
\* run, or the observed call
ProcessUploadCall ==
    /\ Unobserved
    /\ \E upload \in Uploads, metadata \in CallerMetas, observed \in BOOLEAN :
        \E tmp_path \in FreeTmpNames(TheWorld, upload.filename.ext) :
            LET out == ProcessUpload(TheWorld, upload, metadata, tmp_path) IN
            /\ ~upload.too_large /\ upload.fault # "read"
            /\ observed \/ (/\ upload \in EarlierUploads /\ metadata = EmptyMap
                            /\ clock < MaxEarlier)
            /\ SetWorld(out.w)
            /\ last' = IF observed
                       THEN [op |-> "process_upload", upload |-> upload,
                             metadata |-> metadata, tmp_path |-> tmp_path,
                             pre |-> store, out |-> out]
                       ELSE last
            /\ UNCHANGED <<pending, deleteCalls, settings, collection, rate_limiter>>

\* a call of process_files
ProcessFilesCall ==
    /\ Unobserved
    /\ \E docs \in SeqsUpTo(BatchDocs, MaxBatch), metadata \in CallerMetas,
          delete_after \in BOOLEAN :
        LET out == ProcessFiles(TheWorld, docs, metadata, delete_after) IN
        /\ SetWorld(out.w)
        /\ last' = [op |-> "process_files", docs |-> docs, metadata |-> metadata,
                    delete_after |-> delete_after, pre |-> store, out |-> out]
        /\ UNCHANGED <<pending, deleteCalls, settings, collection, rate_limiter>>

\* a request to the ingest/files route; upload i gets the temporary file
\* number tmps[i], free when the request starts
\* raise HTTPException(status_code, detail)
HTTPException(w, status_code, detail) ==
    [raised |-> TRUE, status_code |-> status_code, detail |-> detail, w |-> w]

\* the end of ingest_file: the response built from the process_upload
\* result, or the 500 its except clause makes of an exception
IngestFileResponse(out) ==
    IF out.raised THEN HTTPException(out.w, 500, "Error processing file")
    ELSE [raised |-> FALSE, response |-> ProcessingResponse(out.result),
          w |-> out.w]

\* ingest_file, the temporary file process_upload creates being tmp_path
IngestFile(w, upload, metadata, tmp_path) ==
    IF upload.filename.ext \notin SupportedFormats
    THEN HTTPException(w, 400, "Unsupported file format")
    ELSE IF upload.too_large
    THEN HTTPException(w, 400, "File too large")
    ELSE IF upload.fault = "read"
    THEN HTTPException(w, 500, "Error processing file")
    ELSE IngestFileResponse(ProcessUpload(w, upload, metadata, tmp_path))

\* a request to ingest/file
IngestFileCall ==
    /\ Unobserved
    /\ \E upload \in Uploads, metadata \in CallerMetas :
        \E tmp_path \in FreeTmpNames(TheWorld, upload.filename.ext) :
            LET out == IngestFile(TheWorld, upload, metadata, tmp_path) IN
            /\ SetWorld(out.w)
            /\ last' = [op |-> "ingest_file", upload |-> upload,
                        metadata |-> metadata, pre |-> TheWorld, out |-> out]
            /\ UNCHANGED <<pending, deleteCalls, settings, collection, rate_limiter>>

IngestFilesCall ==
    /\ Unobserved
    /\ \E files \in SeqsUpTo(BatchUploads, MaxBatch), metadata \in CallerMetas :
        \E tmps \in [1..Len(files) -> 1..MaxTmp] :
            LET paths == [i \in 1..Len(files) |->
                             FileName("tmp", tmps[i], files[i].filename.ext)]
                end == IngestFiles(TheWorld, files, metadata, paths)
            IN  /\ \A i, j \in 1..Len(files) : tmps[i] = tmps[j] => i = j
                /\ \A i \in 1..Len(files) : paths[i] \notin tmpFiles
                /\ SetWorld(end.w)
                /\ last' = [op |-> "ingest_files", files |-> files,
                            metadata |-> metadata, pre |-> store,
                            response |-> end.response,
                            calls |-> end.w.calls]
                /\ UNCHANGED <<pending, deleteCalls, settings, collection, rate_limiter>>

\* what a call of store_chunks leaves behind
StoreChunksDone(res, chunks, observed) ==
    /\ store' = res.store
    /\ nextId' = res.nextId
    /\ last' = IF observed
               THEN [op |-> "store_chunks", chunks |-> chunks, pre |-> store,
                     raised |-> res.raised, ids |-> res.ids]
               ELSE last
    /\ UNCHANGED <<clock, tmpFiles, pending, deleteCalls, settings, collection, rate_limiter>>

\* a call of store_chunks: one that fills the collection before the
\* observed call (also between the two requests of a delete_document that
\* runs on another thread), or the observed call
StoreChunksCall ==
    /\ Unobserved
    /\ \E chunks \in StoredDocs, fails \in BOOLEAN, observed \in BOOLEAN :
        /\ nextId + Len(chunks) <= MaxIds
        /\ observed \/ (~fails /\ chunks # <<>>)
        /\ StoreChunksDone(StoreChunks(store, nextId, chunks, fails),
                           chunks, observed)

\* what delete_document does with its count: it returns, or goes on to
\* delete_by_filters
Counted(step, document_identifier) ==
    /\ IF step.done
       THEN /\ last' = [op |-> "delete_document",
                        document_identifier |-> document_identifier,
                        filters |-> FiltersOf(document_identifier),
                        counted |-> store, pre |-> store,
                        calls |-> deleteCalls, result |-> step.result]
            /\ pending' = pending
       ELSE /\ pending' = [op |-> "delete_document",
                           document_identifier |-> document_identifier,
                           filters |-> FiltersOf(document_identifier),
                           counted |-> store,
                           before_count |-> step.before_count]
            /\ last' = last
    /\ UNCHANGED <<store, nextId, clock, tmpFiles, deleteCalls, settings, collection, rate_limiter>>

\* delete_document up to the answer of count_by_filters
DeleteDocumentBegin ==
    /\ Unobserved
    /\ pending = NoCall
    /\ \E document_identifier \in Identifiers, fails \in BOOLEAN :
        Counted(DeleteDocumentCount(store, FiltersOf(document_identifier), fails),
                document_identifier)

\* what delete_document does with the answer of delete_by_filters
Deleted(step) ==
    /\ store' = step.store
    /\ deleteCalls' = deleteCalls + 1
    /\ pending' = NoCall
    /\ last' = [op |-> "delete_document",
                document_identifier |-> pending.document_identifier,
                filters |-> pending.filters, counted |-> pending.counted,
                pre |-> store, calls |-> deleteCalls, result |-> step.result]
    /\ UNCHANGED <<nextId, clock, tmpFiles, settings, collection, rate_limiter>>

\* delete_document from delete_by_filters on
DeleteDocumentEnd ==
    /\ Unobserved
    /\ pending # NoCall
    /\ \E fails \in BOOLEAN :
        Deleted(DeleteDocumentDelete(store, pending.filters, pending.before_count,
                                     deleteCalls + 1, fails))

\* a call of count_by_filters
CountByFiltersCall ==
    /\ Unobserved
    /\ pending = NoCall
    /\ \E filters \in FilterSet :
        /\ last' = [op |-> "count_by_filters", filters |-> filters,
                    pre |-> store, count |-> CountByFilters(store, filters)]
        /\ UNCHANGED <<store, nextId, clock, tmpFiles, pending, deleteCalls, settings, collection, rate_limiter>>

\* a call of search
SearchCall ==
    /\ Unobserved
    /\ pending = NoCall
    /\ \E filters \in FilterSet, query_vector \in QueryVectors,
          limit \in SearchLimits :
        /\ last' = [op |-> "search", filters |-> filters,
                    query_vector |-> query_vector, limit |-> limit,
                    pre |-> store,
                    hits |-> Search(store, query_vector, limit, filters)]
        /\ UNCHANGED <<store, nextId, clock, tmpFiles, pending, deleteCalls, settings, collection, rate_limiter>>

\* a request to the ingest/url route: a url that is not valid is refused,
\* otherwise the task is scheduled and the acknowledgement returned
IngestFromUrlCall ==
    /\ Unobserved
    /\ pending = NoCall
    /\ \E payload \in UrlPayloads :
        /\ IF ValidUrl(payload.url)
           THEN /\ last' = [op |-> "ingest_from_url", payload |-> payload,
                            raised |-> FALSE, pre |-> store,
                            response |-> UrlAcknowledgement(payload)]
                /\ pending' = [op |-> "process_url_task", payload |-> payload,
                               done |-> FALSE]
           ELSE /\ last' = [op |-> "ingest_from_url", payload |-> payload,
                            raised |-> TRUE, pre |-> store]
                /\ pending' = pending
        /\ UNCHANGED <<store, nextId, clock, tmpFiles, deleteCalls, settings, collection, rate_limiter>>

\* what the background task leaves behind
UrlTaskDone(out, dl, temp_file_path) ==
    /\ SetWorld(out.w)
    /\ pending' = [op |-> "process_url_task", payload |-> pending.payload,
                   done |-> TRUE, dl |-> dl, temp_file_path |-> temp_file_path,
                   out |-> out]
    /\ UNCHANGED <<deleteCalls, last, settings, collection, rate_limiter>>

\* the background task of a request, run after the response was sent
ProcessUrlTaskRun ==
    /\ pending.op = "process_url_task"
    /\ ~pending.done
    /\ \E dl \in Downloads, cleanup_fails \in BOOLEAN, n1, n2 \in 1..MaxTmp :
        /\ n1 # n2
        /\ UrlTaskDone(
               ProcessUrlTask(
                   TheWorld, pending.payload, dl,
                   FileName("tmp", n1,
                            UrlFileName(pending.payload.url, dl.content_type).ext),
                   FileName("tmp", n2,
                            UrlFileName(pending.payload.url, dl.content_type).ext),
                   cleanup_fails),
               dl,
               FileName("tmp", n1,
                        UrlFileName(pending.payload.url, dl.content_type).ext))

NextUrl ==
    \/ ProcessUploadCall
    \/ IngestFromUrlCall
    \/ ProcessUrlTaskRun

\* the ingest/url route, its background task, and uploads before them
SpecUrl == Init /\ [][NextUrl]_vars

\* the chunking settings the environment can give: every overlap up to one
\* more than the chunk size
ChunkingEnvironments ==
    {ChunkingSettings(ChunkSize, o) : o \in 0..(ChunkSize + 1)}

\* the service started in any environment: Settings() is built at import
\* from whatever the environment holds
InitAnyEnvironment ==
    /\ settings \in ChunkingEnvironments
    /\ store = EmptyMap
    /\ nextId = 0
    /\ clock = 0
    /\ tmpFiles = {}
    /\ pending = NoCall
    /\ deleteCalls = 0
    /\ collection = CreatedCollection(settings.dimensions, IndexFields, 1)
    /\ rate_limiter = RateLimiter
    /\ last = NoCall

NextConfigured ==
    \/ ProcessFileCall
    \/ ProcessUploadCall

\* ingestion in a service started with any chunking settings
SpecConfigured == InitAnyEnvironment /\ [][NextConfigured]_vars

NextStore ==
    \/ StoreChunksCall
    \/ DeleteDocumentBegin
    \/ DeleteDocumentEnd
    \/ CountByFiltersCall
    \/ SearchCall

\* the vector store and delete_document
SpecStore == Init /\ [][NextStore]_vars

NextIngest ==
    \/ ProcessFileCall
    \/ ProcessUploadCall
    \/ ProcessFilesCall
    \/ IngestFilesCall
    \/ IngestFileCall

\* the ingestion coordinator and the batch route
SpecIngest == Init /\ [][NextIngest]_vars

NextChunker == CreateChunksCall

\* the chunker alone, applied to every bounded text and metadata mapping
SpecChunker == Init /\ [][NextChunker]_vars

----------------------------------------------------------------------------
(* Claims about create_chunks, checked under SpecChunker *)

ChunkerCalled == last.op = "create_chunks"

\* C1: the chunk_id values of the chunks returned by create_chunks are, in
\* list order, exactly 0, 1, ..., n-1, and chunk_total is n on every chunk,
\* whatever the text and the metadata.
C1_ChunkIdsContiguous ==
    ChunkerCalled =>
        \A j \in 1..Len(last.chunks) :
            /\ last.chunks[j].metadata["chunk_id"] = j - 1
            /\ last.chunks[j].metadata["chunk_total"] = Len(last.chunks)

\* C1 witness: a document of at least three chunks whose own metadata
\* already carried a chunk_id.
C1_Witness ==
    /\ ChunkerCalled
    /\ Len(last.chunks) >= 3
    /\ "chunk_id" \in DOMAIN last.metadata

\* C2: location is "beginning" iff chunk_id = 0, "end" iff chunk_id =
\* chunk_total - 1 and chunk_id # 0, "middle" otherwise; a single chunk is
\* tagged "beginning".
C2_LocationRule ==
    ChunkerCalled =>
        \A j \in 1..Len(last.chunks) :
            LET m == last.chunks[j].metadata IN
            /\ (m["location"] = "beginning") <=> (m["chunk_id"] = 0)
            /\ (m["location"] = "end") <=>
                   (m["chunk_id"] = m["chunk_total"] - 1 /\ m["chunk_id"] # 0)
            /\ (m["location"] = "middle") <=>
                   (m["chunk_id"] # 0 /\ m["chunk_id"] # m["chunk_total"] - 1)

\* C2 witness: a document that yields a single chunk.
C2_Witness ==
    /\ ChunkerCalled
    /\ Len(last.chunks) = 1
    /\ last.chunks[1].metadata["location"] = "beginning"

\* C3 (as claimed): every chunk's metadata contains every key of the
\* document metadata with the identical value, and chunk_id, chunk_total
\* and location besides.
C3_MetadataPreserved ==
    ChunkerCalled =>
        \A j \in 1..Len(last.chunks) :
            LET m == last.chunks[j].metadata IN
            /\ \A k \in DOMAIN last.metadata : k \in DOMAIN m /\ m[k] = last.metadata[k]
            /\ {"chunk_id", "chunk_total", "location"} \subseteq DOMAIN m

----------------------------------------------------------------------------
(* Claims about ingestion, checked under SpecIngest *)

\* C4 (as claimed): whenever process_file or process_upload reports the
\* document as failed (success == False), the records of the store are the
\* same as before the call, whichever step failed.
C4_FailedLeavesStoreUnchanged ==
    (/\ last.op \in {"process_file", "process_upload"}
     /\ ~last.out.raised
     /\ ~last.out.result.success) => store = last.pre

\* C5: in batch ingestion (process_files and ingest_files) every document of
\* the batch is processed and gets exactly one result, in input order: the
\* i-th result is the outcome of the i-th document, a document that can be
\* processed succeeds and has its records stored also after a failed one.
C5_BatchProcessesEveryDocument ==
    /\ last.op = "process_files" =>
           /\ ~last.out.raised
           /\ Len(last.out.result) = Len(last.docs)
           /\ \A i \in 1..Len(last.docs) :
                  /\ last.out.result[i].file_path = last.docs[i].path
                  /\ last.out.result[i].success <=>
                         /\ last.docs[i].path.ext \in ProcessorExts
                         /\ \/ last.docs[i].fault = "none"
                            \/ last.docs[i].fault = "remove" /\ ~last.delete_after
                  /\ last.out.result[i].success =>
                         /\ last.out.result[i].chunks_created = 1
                         /\ \A k \in 1..Len(last.out.result[i].chunk_ids) :
                                last.out.result[i].chunk_ids[k] \in DOMAIN store
    /\ last.op = "ingest_files" =>
           /\ Len(last.response.results) = Len(last.files)
           /\ \A i \in 1..Len(last.files) :
                  /\ last.response.results[i].success <=>
                         /\ last.files[i].filename.ext \in SupportedFormats
                         /\ ~last.files[i].too_large
                         /\ last.files[i].fault = "none"
                  /\ ~last.response.results[i].success =>
                         last.response.results[i].file_name
                             \in {last.files[i].filename} \cup
                                 {FileName("tmp", n, last.files[i].filename.ext) :
                                      n \in 1..MaxTmp}
           /\ Cardinality(DOMAIN store) = Cardinality(DOMAIN last.pre)
                  + Cardinality({i \in 1..Len(last.files) :
                                     last.response.results[i].success})

\* C5 witness: a batch given to process_files whose first document fails and
\* whose second document is processed and stored.
C5_Witness ==
    /\ last.op = "process_files"
    /\ Len(last.docs) = 2
    /\ ~last.out.result[1].success
    /\ last.out.result[2].success
    /\ Cardinality(DOMAIN store) = Cardinality(DOMAIN last.pre) + 1

\* C6: the response of ingest_files has total_files = number of submitted
\* files = len(results), successful = number of results with success true,
\* failed = number of results with success false, and successful + failed =
\* total_files.
C6_BatchCounters ==
    last.op = "ingest_files" =>
        /\ last.response.total_files = Len(last.files)
        /\ last.response.total_files = Len(last.response.results)
        /\ last.response.successful =
               Cardinality({i \in 1..Len(last.response.results) :
                                last.response.results[i].success})
        /\ last.response.failed =
               Cardinality({i \in 1..Len(last.response.results) :
                                ~last.response.results[i].success})
        /\ last.response.successful + last.response.failed
               = last.response.total_files

\* C6 witness: a batch of one valid and one unsupported file yields total 2,
\* successful 1, failed 1.
C6_Witness ==
    /\ last.op = "ingest_files"
    /\ Len(last.files) = 2
    /\ last.files[1].filename.ext = "txt" /\ last.files[1].fault = "none"
    /\ ~last.files[1].too_large
    /\ last.files[2].filename.ext = "xyz"
    /\ last.response.total_files = 2
    /\ last.response.successful = 1
    /\ last.response.failed = 1

----------------------------------------------------------------------------
(* Claims about the store and delete_document, checked under SpecStore *)

\* C7: delete_document with a filter or file name that matches zero stored
\* records returns success == False with deleted_count == 0, does not
\* invoke the store's delete operation, and leaves the store unchanged.
C7_NoMatchDeletesNothing ==
    (/\ last.op = "delete_document"
     /\ Selected(last.counted, BuildFilter(last.filters)) = {}) =>
        /\ last.result.success = FALSE
        /\ last.result.deleted_count = 0
        /\ deleteCalls = last.calls
        /\ store = last.counted

\* C7 witness: a file name and a filter that match none of the records of
\* a collection that is not empty.
C7_Witness ==
    /\ last.op = "delete_document"
    /\ last.counted # EmptyMap
    /\ last.document_identifier.isName
    /\ Selected(last.counted, BuildFilter(last.filters)) = {}
    /\ last.result = NoMatchResult

\* C8: after a delete_document that deleted the records a filter selects,
\* counting with the same filter returns 0, the records the filter does not
\* select are still present, and a second delete_document with the same
\* filter reports "no match".
C8_DeleteThenCountZero ==
    (last.op = "delete_document" /\ last.result.success) =>
        /\ CountByFilters(store, last.filters) = 0
        /\ DOMAIN store =
               DOMAIN last.pre \ Selected(last.pre, BuildFilter(last.filters))
        /\ \A id \in DOMAIN store : store[id] = last.pre[id]
        /\ DeleteDocumentCount(store, last.filters, FALSE)
               = [done |-> TRUE, result |-> NoMatchResult]

\* C8 witness: a delete that removed some records and left others.
C8_Witness ==
    /\ last.op = "delete_document"
    /\ last.result.success
    /\ store # EmptyMap
    /\ DOMAIN store # DOMAIN last.pre
    /\ Cardinality(DOMAIN last.filters) = 2

\* C9: a call of store_chunks with N embedded chunks returns N ids and
\* increases the unfiltered count by exactly N, also when chunks with
\* identical text and metadata were stored before: the ids are new and no
\* record stored before is overwritten.
C9_StoreAddsNewRecords ==
    (last.op = "store_chunks" /\ ~last.raised) =>
        /\ Len(last.ids) = Len(last.chunks)
        /\ CountByFilters(store, EmptyMap)
               = CountByFilters(last.pre, EmptyMap) + Len(last.chunks)
        /\ \A i, j \in 1..Len(last.ids) : last.ids[i] = last.ids[j] => i = j
        /\ \A i \in 1..Len(last.ids) :
               /\ last.ids[i] \notin DOMAIN last.pre
               /\ last.ids[i] \in DOMAIN store
               /\ store[last.ids[i]].payload.text = last.chunks[i].text
               /\ store[last.ids[i]].payload.metadata = last.chunks[i].metadata
        /\ \A id \in DOMAIN last.pre : id \in DOMAIN store /\ store[id] = last.pre[id]

\* C9 witness: chunks are stored whose text and metadata are those of a
\* record already in the collection.
C9_Witness ==
    /\ last.op = "store_chunks"
    /\ ~last.raised
    /\ Len(last.chunks) >= 2
    /\ \A i \in 1..Len(last.chunks) :
           \E id \in DOMAIN last.pre :
               /\ last.pre[id].payload.text = last.chunks[i].text
               /\ last.pre[id].payload.metadata = last.chunks[i].metadata

\* C10 (as claimed): for count, delete and search a record matches a filter
\* iff for every field of the filter its payload metadata has the field
\* equal to the single value, or equal to at least one element of the
\* sequence (no element of an empty sequence); an empty mapping matches
\* every record.
C10_FilterSemantics ==
    LET Matches(filters, payload) ==
            \A k \in DOMAIN filters :
                /\ k \in DOMAIN payload.metadata
                /\ IF filters[k].list
                   THEN \E i \in 1..Len(filters[k].v) :
                            payload.metadata[k] = filters[k].v[i]
                   ELSE payload.metadata[k] = filters[k].v
        Matching(coll, filters) ==
            {id \in DOMAIN coll : Matches(filters, coll[id].payload)}
    IN  /\ last.op = "count_by_filters" =>
               last.count = Cardinality(Matching(last.pre, last.filters))
        /\ last.op = "search" =>
               /\ {last.hits[i].id : i \in 1..Len(last.hits)}
                      \subseteq Matching(last.pre, last.filters)
               /\ \/ Len(last.hits) = last.limit
                  \/ Len(last.hits) = Cardinality(Matching(last.pre, last.filters))
        /\ (last.op = "delete_document" /\ last.result.success) =>
               DOMAIN store = DOMAIN last.pre \ Matching(last.pre, last.filters)

----------------------------------------------------------------------------
(* Claims about uploads, checked under SpecIngest *)

\* C11 (as claimed): after an upload submitted under filename F is ingested
\* successfully by process_upload, the records stored for it carry
\* metadata.filename == F, and delete_document(F) then finds records to
\* delete.
C11_UploadDeletableByName ==
    (/\ last.op = "process_upload"
     /\ ~last.out.raised
     /\ last.out.result.success) =>
        /\ \A k \in 1..Len(last.out.result.chunk_ids) :
               store[last.out.result.chunk_ids[k]].payload.metadata["filename"]
                   = last.upload.filename
        /\ ~DeleteDocumentCount(
                store, FiltersOf([isName |-> TRUE, v |-> last.upload.filename]),
                FALSE).done

\* C12 (as claimed): the result process_upload returns has file_name equal
\* to the filename the caller supplied, on success and on failure.
C12_UploadResultFileName ==
    (last.op = "process_upload" /\ ~last.out.raised) =>
        last.out.result.file_name = last.upload.filename

\* C13 (as claimed): the temporary file process_upload writes no longer
\* exists when the ingestion finishes, on every exit path: success, a failed
\* step reported as a failed result, or an exception.  (Stated for the calls
\* in which removing a file does not itself fail.)
C13_TemporaryFileRemoved ==
    (last.op = "process_upload" /\ last.upload.fault # "remove") =>
        last.tmp_path \notin tmpFiles

----------------------------------------------------------------------------
(* Claims about the ingest/url route, checked under SpecUrl *)

\* C14: for a request with a valid URL the acknowledgement (success == True)
\* is returned when the task is scheduled, before the task has run; the task
\* runs afterwards, no failure of its download, processing or cleanup gets
\* out of it as an exception, and it leaves the acknowledgement as it was.
C14_UrlAcknowledgedAtOnce ==
    /\ []((last.op = "ingest_from_url" /\ ValidUrl(last.payload.url)) =>
              /\ ~last.raised
              /\ last.response.success = TRUE
              /\ pending.op = "process_url_task"
              /\ pending.payload = last.payload
              /\ ~pending.done => (store = last.pre /\ tmpFiles = {})
              /\ pending.done => ~pending.out.raised)
    /\ [][(pending.op = "process_url_task" /\ ~pending.done) =>
              /\ last.op = "ingest_from_url"
              /\ last.response.success = TRUE
              /\ last' = last]_vars

\* C14 witness: the background task of an acknowledged request has run and
\* its download failed.
C14_Witness ==
    /\ last.op = "ingest_from_url"
    /\ ~last.raised
    /\ last.response.success = TRUE
    /\ pending.op = "process_url_task"
    /\ pending.done
    /\ pending.dl.fault = "download"

----------------------------------------------------------------------------
(* Claims about process_file, checked under SpecIngest *)

\* C15 (as claimed): for every key k of the caller's extra metadata of
\* process_file, every chunk stored for the document carries the caller's
\* value for k, whichever other producer writes the same key.
C15_CallerMetadataWins ==
    (/\ last.op = "process_file"
     /\ last.out.result.success) =>
        \A i \in 1..Len(last.out.result.chunk_ids) :
            \A k \in DOMAIN last.metadata :
                store[last.out.result.chunk_ids[i]].payload.metadata[k]
                    = last.metadata[k]

\* C16: a document whose extracted text is empty yields zero chunks, and
\* process_file returns success == True with chunks_created == 0 and no
\* ids; nothing is written to the store, so the call succeeds also while
\* the embedding model or the store would fail, and the store is unchanged.
C16_EmptyDocumentIsNoOp ==
    (/\ last.op = "process_file"
     /\ last.doc.text = <<>>
     /\ last.doc.path.ext \in ProcessorExts
     /\ last.doc.fault \in {"none", "embed", "store"}) =>
        /\ ~last.out.raised
        /\ last.out.result.success = TRUE
        /\ last.out.result.chunks_created = 0
        /\ last.out.result.chunk_ids = <<>>
        /\ store = last.pre

\* C16 witness: an empty document is processed while the store is failing.
C16_Witness ==
    /\ last.op = "process_file"
    /\ last.doc.text = <<>>
    /\ last.doc.fault = "store"
    /\ last.out.result.success
    /\ last.out.result.chunks_created = 0

----------------------------------------------------------------------------
(* Claims about the configuration, checked under SpecConfigured *)

\* C17 (as claimed): a configuration with chunk_overlap >= chunk_size is
\* rejected at startup, before any ingestion request is processed: no
\* request ever returns a result under it and no document is ever chunked
\* and stored.
C17_InvalidOverlapRejectedAtStartup ==
    settings.chunk_overlap >= settings.chunk_size =>
        /\ last.op \notin {"process_file", "process_upload"}
        /\ store = EmptyMap

----------------------------------------------------------------------------
(* extract_chunk_title on its own, checked under SpecTitle *)

\* the pieces chunk texts are put together from: single characters and the
\* two tags of an HTML heading
TitleTokens ==
    {<<"a">>, <<" ">>, <<"\n">>, <<".">>, <<"#">>,
     <<"<", "h", "1", ">">>, <<"<", "/", "h", "1", ">">>}

TitleTexts ==
    {Flatten(ts) : ts \in UNION {[1..n -> TitleTokens] : n \in 0..MaxTitleTokens}}

MaxLengths == 0..MaxTitleLength

\* a call of extract_chunk_title(text, max_length); the function is pure
ExtractChunkTitleCall ==
    /\ last = NoCall
    /\ \E text \in TitleTexts, max_length \in MaxLengths :
        /\ last' = [op |-> "extract_chunk_title", text |-> text,
                    max_length |-> max_length,
                    title |-> ExtractChunkTitle(text, max_length)]
        /\ UNCHANGED <<store, nextId, clock, tmpFiles, pending, deleteCalls, settings, collection, rate_limiter>>

NextTitle == ExtractChunkTitleCall

\* the title function alone, applied to every bounded text and length
SpecTitle == Init /\ [][NextTitle]_vars

TitleCalled == last.op = "extract_chunk_title"

\* str.endswith
EndsWith(s, p) == Len(p) <= Len(s) /\ SubSeq(s, Len(s) - Len(p) + 1, Len(s)) = p

\* the positions at which each header pattern matches
MarkdownHeaderLines(text) ==
    {p \in 1..Len(text) : LineStart(text, p) /\ MarkdownHeaderAt(text, p).found}

HtmlHeaderPlaces(text) == {p \in 1..Len(text) : HtmlHeaderAt(text, p).found}

Least(S) == CHOOSE p \in S : \A q \in S : p <= q

\* the chunk, leading whitespace aside, begins with a heading
HeadingAtStart(text) ==
    /\ Strip(text) # <<>>
    /\ \/ MarkdownHeaderAt(Strip(text), 1).found
       \/ HtmlHeaderAt(Strip(text), 1).found

\* the title taken from the first sentence, or from the raw text when the
\* first sentence is empty
SentenceTitle(text, max_length) ==
    LET first_sentence == Strip(FirstSentence(Strip(text)))
    IN  EllipsisTitle(IF first_sentence # <<>> THEN first_sentence
                      ELSE Strip(text), max_length)

\* C18 (as stated): extract_chunk_title derives the title from a heading
\* only when the heading marker is at the start of the chunk; for a chunk
\* that does not start with a heading marker the title is its first
\* sentence (or the raw leading text).
C18_HeadingOnlyAtChunkStart ==
    (TitleCalled /\ ~HeadingAtStart(last.text)) =>
        last.title = SentenceTitle(last.text, last.max_length)

\* C18 (amended): the heading is looked for in the whole chunk. When some
\* line of the chunk is a markdown heading the title is the text of the
\* first such line; failing that, when the chunk holds an HTML heading
\* anywhere the title is the text of the first one; only a chunk with no
\* heading at all gets its first sentence (or raw text) as title.
C18_HeadingAnywhereInChunk ==
    TitleCalled =>
        IF MarkdownHeaderLines(last.text) # {}
        THEN last.title =
                 HeaderTitle(MarkdownHeaderAt(last.text,
                     Least(MarkdownHeaderLines(last.text))).group,
                     last.max_length)
        ELSE IF HtmlHeaderPlaces(last.text) # {}
        THEN last.title =
                 HeaderTitle(HtmlHeaderAt(last.text,
                     Least(HtmlHeaderPlaces(last.text))).group,
                     last.max_length)
        ELSE last.title = SentenceTitle(last.text, last.max_length)

\* a chunk that starts with plain text and has a markdown heading on a
\* later line is titled by that heading
C18_Witness ==
    /\ TitleCalled
    /\ last.text = <<"a", "\n", "#", " ", "a">>
    /\ last.max_length = MaxTitleLength
    /\ last.title = <<"a">>

\* the text a title is cut from: the stripped text of the heading found,
\* else the first sentence, else the raw stripped text
TitleCandidate(text) ==
    IF FirstMarkdownHeader(text).found
    THEN Strip(FirstMarkdownHeader(text).group)
    ELSE IF FirstHtmlHeader(text).found
    THEN Strip(FirstHtmlHeader(text).group)
    ELSE IF Strip(FirstSentence(Strip(text))) # <<>>
    THEN Strip(FirstSentence(Strip(text)))
    ELSE Strip(text)

\* C19: in every case of extract_chunk_title (heading text, first sentence,
\* raw leading text), whenever the candidate title is longer than
\* max_length the returned title is truncated to max_length and ends with
\* the ellipsis marker "...".
C19_TruncatedTitleEndsWithEllipsis ==
    (TitleCalled /\ Len(TitleCandidate(last.text)) > last.max_length) =>
        /\ Len(last.title) <= last.max_length
        /\ EndsWith(last.title, Ellipsis)

NoHeading(text) ==
    ~FirstMarkdownHeader(text).found /\ ~FirstHtmlHeader(text).found

\* C20 (as stated): for every input text longer than max_length that
\* contains no heading, extract_chunk_title returns a title of exactly
\* max_length characters that ends with the ellipsis marker.
C20_LongTextGivesMaxLengthTitle ==
    (TitleCalled /\ NoHeading(last.text) /\ Len(last.text) > last.max_length) =>
        /\ Len(last.title) = last.max_length
        /\ EndsWith(last.title, Ellipsis)

\* C20 (amended): what decides is the length of the first sentence, not of
\* the text. For a text with no heading whose first sentence (the raw
\* stripped text when there is none) is longer than max_length, the title
\* ends with the ellipsis marker and has exactly max_length characters when
\* max_length is at least 3; below 3 the cut is taken from the end of the
\* sentence and the title is longer than max_length. When the first
\* sentence fits, the title is that sentence unchanged, however long the
\* text is.
C20_LongSentenceCutWithEllipsis ==
    (TitleCalled /\ NoHeading(last.text)) =>
        IF Len(TitleCandidate(last.text)) > last.max_length
        THEN /\ EndsWith(last.title, Ellipsis)
             /\ last.max_length >= 3 => Len(last.title) = last.max_length
             /\ last.max_length < 3 =>
                    /\ Len(last.title) > last.max_length
                    /\ Len(last.title) >= Len(Ellipsis)
        ELSE last.title = TitleCandidate(last.text)

\* a text of one sentence longer than max_length, cut to max_length
C20_Witness ==
    /\ TitleCalled
    /\ last.text = <<"a", "a", "a", "a", "a">>
    /\ last.max_length = 4
    /\ last.title = <<"a", ".", ".", ".">>

\* C21: for every text and every non-negative max_length, the title
\* returned by extract_chunk_title has at most max_length characters.
C21_TitleWithinMaxLength ==
    TitleCalled => Len(last.title) <= last.max_length

\* the observed process_file call returned a successful result
ProcessFileSucceeded ==
    /\ last.op = "process_file"
    /\ ~last.out.raised
    /\ last.out.result.success

\* C22: a successful process_file result reports chunks_created equal to
\* the number of chunk ids it returns and equal to the number of records
\* that call added to the vector store; the ids returned are the ids of
\* those records.
C22_ChunksCreatedIsRecordsAdded ==
    ProcessFileSucceeded =>
        /\ last.out.result.chunks_created = Len(last.out.result.chunk_ids)
        /\ last.out.result.chunks_created
               = Cardinality(DOMAIN store \ DOMAIN last.pre)
        /\ {last.out.result.chunk_ids[i] :
                i \in 1..Len(last.out.result.chunk_ids)}
               = DOMAIN store \ DOMAIN last.pre
        /\ DOMAIN last.pre \subseteq DOMAIN store

\* C22 witness: a document of several chunks is stored in a collection
\* that already holds records
C22_Witness ==
    /\ ProcessFileSucceeded
    /\ last.out.result.chunks_created >= 2
    /\ last.pre # EmptyMap

----------------------------------------------------------------------------
(* Claims about the order of the steps of a request, checked under        *)
(* SpecIngest                                                             *)

\* an upload the routes turn away before processing, and the reason given
RejectedUpload(upload) ==
    upload.filename.ext \notin SupportedFormats \/ upload.too_large

RejectionReason(upload) ==
    IF upload.filename.ext \notin SupportedFormats
    THEN "Unsupported file format" ELSE "File too large"

\* how many times a stage appears among the operations invoked
TimesInvoked(calls, stage) ==
    Cardinality({i \in 1..Len(calls) : calls[i].stage = stage})

PipelineStages == {"tmpfile", "extract", "chunk", "embed", "store", "upsert", "remove"}

\* C23: in ingest_file and ingest_files the unsupported-format check and
\* the oversized-file check are made before any processing of the file: a
\* file rejected by either check gets no temporary file and no extractor,
\* embedder or store operation, and the rejection carries the specific
\* reason; in a batch no stage runs more often than there are files that
\* passed both checks.
C23_RejectedBeforeProcessing ==
    /\ (last.op = "ingest_file" /\ RejectedUpload(last.upload)) =>
           /\ last.out.raised
           /\ last.out.status_code = 400
           /\ last.out.detail = RejectionReason(last.upload)
           /\ last.out.w = last.pre
           /\ store = last.pre.store /\ tmpFiles = last.pre.tmpFiles
    /\ last.op = "ingest_files" =>
           /\ \A i \in 1..Len(last.files) :
                  RejectedUpload(last.files[i]) =>
                      last.response.results[i] =
                          FailedResponse(last.files[i].filename,
                                         RejectionReason(last.files[i]))
           /\ \A s \in PipelineStages :
                  TimesInvoked(last.calls, s)
                      <= Cardinality({i \in 1..Len(last.files) :
                                          ~RejectedUpload(last.files[i])})

\* C23 witness: a batch of an oversized file, rejected, and a good file,
\* processed
C23_Witness ==
    /\ last.op = "ingest_files"
    /\ Len(last.files) = 2
    /\ last.files[1].too_large
    /\ ~RejectedUpload(last.files[2])
    /\ last.response.results[2].success
    /\ TimesInvoked(last.calls, "tmpfile") = 1
    /\ TimesInvoked(last.calls, "upsert") = 1

----------------------------------------------------------------------------
(* embed_chunks on its own, checked under SpecEmbedder *)

\* the chunks embed_chunks is called with: texts with different vectors
ChunkPool ==
    {[text |-> t, metadata |-> EmptyMap] : t \in {<<"a">>, <<"a", "a">>, <<".">>}}

ChunkLists == {<<>>} \cup SeqsUpTo(ChunkPool, MaxIds)

\* the embedder built with any batch size from 1 up
InitAnyBatchSize ==
    /\ settings \in {Settings(ChunkSize, ChunkOverlap, b) :
                         b \in 1..(EmbeddingBatchSize + 1)}
    /\ store = EmptyMap
    /\ nextId = 0
    /\ clock = 0
    /\ tmpFiles = {}
    /\ pending = NoCall
    /\ deleteCalls = 0
    /\ collection = CreatedCollection(settings.dimensions, IndexFields, 1)
    /\ rate_limiter = RateLimiter
    /\ last = NoCall

\* a call of embed_chunks(chunks), with the iterations of the batch loop
EmbedChunksCall ==
    /\ last = NoCall
    /\ \E chunks \in ChunkLists :
        /\ last' = [op |-> "embed_chunks", chunks |-> chunks,
                    iterations |->
                        EmbedBatches([i \in 1..Len(chunks) |-> chunks[i].text], 1),
                    embedded |-> EmbedChunks(chunks)]
        /\ UNCHANGED <<store, nextId, clock, tmpFiles, pending, deleteCalls, settings, collection, rate_limiter>>

NextEmbedder == EmbedChunksCall

SpecEmbedder == InitAnyBatchSize /\ [][NextEmbedder]_vars

\* C24: for every list of n >= 1 chunks and batch size b >= 1, embed_chunks
\* returns the same n chunks in the same order, chunk i carrying the vector
\* the model produced for chunk i's text; the model is called on
\* consecutive slices of at most b texts, in order, and the batch outputs
\* are concatenated in that order.
C24_EmbedChunksKeepsOrder ==
    (last.op = "embed_chunks" /\ Len(last.chunks) >= 1) =>
        /\ Len(last.embedded) = Len(last.chunks)
        /\ \A i \in 1..Len(last.chunks) :
               /\ last.embedded[i].text = last.chunks[i].text
               /\ last.embedded[i].metadata = last.chunks[i].metadata
               /\ last.embedded[i].embedding = Encode(last.chunks[i].text)
        /\ \A k \in 1..Len(last.iterations) :
               /\ Len(last.iterations[k].batch_texts) \in 1..settings.batch_size
               /\ k < Len(last.iterations) =>
                      Len(last.iterations[k].batch_texts) = settings.batch_size
        /\ Flatten([k \in 1..Len(last.iterations) |->
                        last.iterations[k].batch_texts])
               = [i \in 1..Len(last.chunks) |-> last.chunks[i].text]
        /\ Flatten([k \in 1..Len(last.iterations) |->
                        last.iterations[k].batch_embeddings])
               = [i \in 1..Len(last.chunks) |-> last.embedded[i].embedding]

\* C24 witness: chunks with different texts embedded in more than one
\* batch, the last batch not full
C24_Witness ==
    /\ last.op = "embed_chunks"
    /\ Len(last.iterations) >= 2
    /\ Len(last.iterations[Len(last.iterations)].batch_texts) < settings.batch_size
    /\ last.chunks[1].text # last.chunks[Len(last.chunks)].text

----------------------------------------------------------------------------
(* Claims about the stages of process_file *)

\* the place of each operation in the pipeline
StageRank(stage) ==
    CASE stage = "tmpfile" -> 0
      [] stage = "extract" -> 1
      [] stage = "chunk" -> 2
      [] stage = "embed" -> 3
      [] stage = "store" -> 4
      [] stage = "upsert" -> 5
      [] stage = "remove" -> 6

\* the message of the failure of each operation
FailureOf(stage) ==
    CASE stage = "extract" -> "extraction failed"
      [] stage = "chunk" -> "larger chunk overlap than chunk size"
      [] stage = "embed" -> "embedding failed"
      [] stage = "upsert" -> "storage failed"
      [] stage = "remove" -> "remove failed"

\* C25: process_file invokes each of extraction, chunking, embedding and
\* storage at most once per document and in that order; when a stage fails
\* it is the last one invoked, the result has success False with the
\* message of that failure, and no exception reaches the caller.
C25_NoRetryFirstFailureSurfaces ==
    last.op = "process_file" =>
        LET calls == last.out.w.calls IN
        /\ ~last.out.raised
        /\ \A s \in PipelineStages : TimesInvoked(calls, s) <= 1
        /\ \A i, j \in 1..Len(calls) :
               i < j => StageRank(calls[i].stage) < StageRank(calls[j].stage)
        /\ ~last.out.result.success =>
               /\ calls # <<>> =>
                      last.out.result.error = FailureOf(calls[Len(calls)].stage)
               /\ calls = <<>> =>
                      last.out.result.error
                          \in {"Unsupported file type", "File not found"}
        /\ last.out.result.success =>
               /\ TimesInvoked(calls, "extract") = 1
               /\ TimesInvoked(calls, "chunk") = 1
               /\ TimesInvoked(calls, "embed") = 1
               /\ TimesInvoked(calls, "store") = 1

\* C25 witness: the embedding of a document with chunks fails; extraction
\* and chunking have run once, the store has not been called
C25_Witness ==
    /\ last.op = "process_file"
    /\ last.doc.fault = "embed"
    /\ ~last.out.raised
    /\ ~last.out.result.success
    /\ last.out.result.error = "embedding failed"
    /\ TimesInvoked(last.out.w.calls, "embed") = 1
    /\ TimesInvoked(last.out.w.calls, "store") = 0
    /\ store = last.pre

----------------------------------------------------------------------------
(* Claims about the two requests of delete_document, checked under        *)
(* SpecStore                                                              *)

\* the observed delete_document went on to its delete request
DeleteDocumentDeleted ==
    /\ last.op = "delete_document"
    /\ last.result.success

\* no store operation came between its count and its delete
NotInterleaved == last.counted = last.pre

\* C26: when no other store operation interleaves with it, a successful
\* delete_document reports deleted_count equal to the number of records
\* actually removed; count_by_filters and delete_by_filters select the same
\* set of records for every filter mapping (single values, sequences, and
\* the empty mapping).
C26_DeletedCountIsRecordsRemoved ==
    /\ (DeleteDocumentDeleted /\ NotInterleaved) =>
           /\ DOMAIN store \subseteq DOMAIN last.pre
           /\ last.result.deleted_count
                  = Cardinality(DOMAIN last.pre \ DOMAIN store)
    /\ \A filters \in FilterSet :
           CountByFilters(store, filters)
               = Cardinality(DOMAIN store \ DOMAIN DeleteByFilters(store, filters))

\* C26 witness: a delete by a sequence of values, not interleaved, removes
\* some records of a collection and leaves others
C26_Witness ==
    /\ DeleteDocumentDeleted
    /\ NotInterleaved
    /\ \E k \in DOMAIN last.filters : last.filters[k].list
    /\ last.result.deleted_count >= 1
    /\ store # EmptyMap

----------------------------------------------------------------------------
(* delete_document running beside other pipelines, checked under SpecRace: *)
(* its count request, and then its return or its delete request, are two   *)
(* steps, and other pipelines store and delete between them                *)

\* delete_document sends its count request and gets the answer
DeleteDocumentCounts ==
    /\ Unobserved
    /\ pending = NoCall
    /\ \E document_identifier \in Identifiers :
        /\ pending' = [op |-> "delete_document",
                       document_identifier |-> document_identifier,
                       filters |-> FiltersOf(document_identifier),
                       counted |-> store,
                       before_count |->
                           CountByFilters(store, FiltersOf(document_identifier))]
        /\ UNCHANGED <<store, nextId, clock, tmpFiles, deleteCalls, last, settings, collection, rate_limiter>>

\* delete_document acts on the count it got: it returns "no match", or
\* sends its delete request and returns
DeleteDocumentReturns ==
    /\ Unobserved
    /\ pending # NoCall
    /\ IF NoMatch(pending.before_count)
       THEN /\ last' = [op |-> "delete_document",
                        document_identifier |-> pending.document_identifier,
                        filters |-> pending.filters, counted |-> pending.counted,
                        pre |-> store, calls |-> deleteCalls,
                        result |-> NoMatchResult]
            /\ pending' = NoCall
            /\ UNCHANGED <<store, nextId, clock, tmpFiles, deleteCalls, settings, collection, rate_limiter>>
       ELSE Deleted(DeleteDocumentDelete(store, pending.filters,
                                         pending.before_count,
                                         deleteCalls + 1, FALSE))

\* another pipeline deletes by a filter
DeleteByFiltersCall ==
    /\ Unobserved
    /\ deleteCalls < MaxEarlier
    /\ \E filters \in FilterSet :
        /\ Selected(store, BuildFilter(filters)) # {}
        /\ store' = DeleteByFilters(store, filters)
        /\ deleteCalls' = deleteCalls + 1
        /\ UNCHANGED <<nextId, clock, tmpFiles, pending, last, settings, collection, rate_limiter>>

NextRace ==
    \/ DeleteDocumentCounts
    \/ DeleteDocumentReturns
    \/ StoreChunksCall
    \/ DeleteByFiltersCall

SpecRace == Init /\ [][NextRace]_vars

\* the records the filter of the observed delete_document selects in a
\* collection
Matching(coll) == Selected(coll, BuildFilter(last.filters))

\* C27: the count step and the delete step of delete_document are not
\* atomic. The reported deleted_count is the number of records that matched
\* when the count was made, the records removed are those that match when
\* the delete is made, and the two differ only when another pipeline stored
\* or deleted matching records in between; a "no match" answer says that
\* nothing matched at the count, whatever matches at the return.
C27_CountAndDeleteNotAtomic ==
    last.op = "delete_document" =>
        IF last.result.success
        THEN /\ last.result.deleted_count = Cardinality(Matching(last.counted))
             /\ DOMAIN last.pre \ DOMAIN store = Matching(last.pre)
             /\ last.result.deleted_count # Cardinality(Matching(last.pre)) =>
                    last.counted # last.pre
        ELSE /\ Matching(last.counted) = {}
             /\ store = last.pre

\* C27 witness: records matching the filter are stored between the count
\* and the delete, and deleted_count is less than the number removed
C27_Witness ==
    /\ last.op = "delete_document"
    /\ last.result.success
    /\ last.result.deleted_count
           < Cardinality(DOMAIN last.pre \ DOMAIN store)

\* the entries of one operation among those invoked
CallsOf(calls, stage) == SelectSeq(calls, LAMBDA c : c.stage = stage)

\* C28: in process_file the stages run strictly in the order extract,
\* chunk, embed, store: for a document with at least one chunk the store
\* receives exactly one upsert call with every chunk of the document, each
\* carrying the embedding of its text, and no record of the document is
\* written before all its chunks are embedded.
C28_OneUpsertAfterEmbedding ==
    last.op = "process_file" =>
        LET calls == last.out.w.calls
            n == Len(SplitText(last.doc.text))
        IN  /\ \A i \in 1..Len(calls) :
                   calls[i].stage = "upsert" =>
                       /\ i = 5
                       /\ calls[1].stage = "extract" /\ calls[2].stage = "chunk"
                       /\ calls[3].stage = "embed" /\ calls[4].stage = "store"
                       /\ calls[3].n = n /\ calls[i].n = n /\ n >= 1
            /\ TimesInvoked(calls, "upsert") = 0 => store = last.pre
            /\ (last.out.result.success /\ n >= 1) =>
                   /\ CallsOf(calls, "upsert") = <<[stage |-> "upsert", n |-> n]>>
                   /\ Cardinality(DOMAIN store \ DOMAIN last.pre) = n
            /\ \A id \in DOMAIN store \ DOMAIN last.pre :
                   store[id].vector = Encode(store[id].payload.text)

\* C28 witness: a document of several chunks is stored with one upsert
C28_Witness ==
    /\ last.op = "process_file"
    /\ last.out.result.success
    /\ CallsOf(last.out.w.calls, "upsert") = <<[stage |-> "upsert", n |-> 2]>>
    /\ Cardinality(DOMAIN store \ DOMAIN last.pre) = 2

----------------------------------------------------------------------------
(* The constructor of QdrantStorage against a server in any state,        *)
(* checked under SpecCollection                                           *)

\* the server before the service first starts: without the collection, or
\* with a collection of the same name left by an earlier installation
ServerStates ==
    {NoCollection}
    \cup {CreatedCollection(size, indexes, 0) :
              size \in 1..(EmbeddingDimensions + 1),
              indexes \in {{}, IndexFields}}

InitAnyServer ==
    /\ settings = ChunkingSettings(ChunkSize, ChunkOverlap)
    /\ store = EmptyMap
    /\ nextId = 0
    /\ clock = 0
    /\ tmpFiles = {}
    /\ pending = NoCall
    /\ deleteCalls = 0
    /\ collection \in ServerStates
    /\ rate_limiter = RateLimiter
    /\ last = NoCall

ConstructorFaults == {"none", "list", "create", "index"}

\* QdrantStorage(): one of the constructions made at import (Ingestor()
\* and the module-level storage of the routes) or at a restart
QdrantStorageCall ==
    /\ Unobserved
    /\ \E fault \in ConstructorFaults, observed \in BOOLEAN :
        LET out == EnsureCollectionExists(collection, settings.dimensions, fault)
        IN  /\ collection' = out.collection
            /\ last' = IF observed
                       THEN [op |-> "QdrantStorage", fault |-> fault,
                             pre |-> collection, records |-> store,
                             raised |-> out.raised]
                       ELSE last
            /\ UNCHANGED <<store, nextId, clock, tmpFiles, pending, deleteCalls,
                           settings, rate_limiter>>

\* records are stored once a store has been constructed on a collection of
\* the configured size
StoreIntoCollection ==
    /\ collection.exists
    /\ collection.size = settings.dimensions
    /\ StoreChunksCall

NextCollection ==
    \/ QdrantStorageCall
    \/ StoreIntoCollection

SpecCollection == InitAnyServer /\ [][NextCollection]_vars

StorageConstructed == last.op = "QdrantStorage" /\ ~last.raised

----------------------------------------------------------------------------
(* The rate limiter under a sequence of requests *)

\* the responses of the requests sent so far, oldest first
Responses == IF last = NoCall THEN <<>> ELSE last.responses

\* a request passes through rate_limit_middleware at the current time
RateLimitMiddlewareCall ==
    /\ Len(Responses) < MaxRequests
    /\ \E client_ip \in ClientIps, api_key \in ApiKeys :
        LET out == RateLimitMiddleware(rate_limiter, client_ip, api_key, clock)
        IN  /\ rate_limiter' = out.rl
            /\ last' = [op |-> "rate_limit_middleware",
                        responses |-> Append(Responses, out.response)]
    /\ UNCHANGED <<store, nextId, clock, tmpFiles, pending, deleteCalls,
                   settings, collection>>

\* time.time() returns a later value at the next request
TimePasses ==
    /\ clock < MaxTime
    /\ clock' = clock + 1
    /\ UNCHANGED <<store, nextId, tmpFiles, pending, deleteCalls, last,
                   settings, collection, rate_limiter>>

NextRateLimit ==
    \/ RateLimitMiddlewareCall
    \/ TimePasses

SpecRateLimit == Init /\ [][NextRateLimit]_vars

\* the requests among the first n that were admitted with the given value
\* (client address or API key) in the given field
AdmittedWith(field, key, n) ==
    {i \in 1..n : /\ ~Responses[i].is_limited
                  /\ Responses[i][field] = key}

\* the admitted requests among the first n with the given key whose
\* timestamp lies in the window that ends with request n
AdmittedInWindow(field, key, n) ==
    {i \in AdmittedWith(field, key, n) :
         Responses[n].current_time - Responses[i].current_time
             < RateLimitWindow}

\* the requests that named the key, as client address or as API key: each
\* of them cleaned the key's lists
ChecksOf(key) ==
    {i \in 1..Len(Responses) :
         Responses[i].client_ip = key \/ Responses[i].api_key = key}

Greatest(S) == CHOOSE i \in S : \A j \in S : j <= i

RECURSIVE TimesOf(_, _, _)
\* the timestamps of the admitted requests with the key, oldest first
TimesOf(field, key, n) ==
    IF n = 0 THEN <<>>
    ELSE IF n \in AdmittedWith(field, key, n)
    THEN Append(TimesOf(field, key, n - 1), Responses[n].current_time)
    ELSE TimesOf(field, key, n - 1)

\* what the limiter is to hold for a key: the timestamps of the admitted
\* requests with it that were younger than the window at its last check
ToBeKept(field, key) ==
    IF ChecksOf(key) = {} \/ (field = "api_key" /\ key = "") THEN <<>>
    ELSE YoungerThan(TimesOf(field, key, Len(Responses)),
                     Responses[Greatest(ChecksOf(key))].current_time,
                     RateLimitWindow)

====
